---------------------------- MODULE Spec2Model ----------------------------
(***************************************************************************)
(* The weekly schedule optimizer generateIntelligentSchedule of            *)
(* src/src/utils/aiService.ts, as a state machine.                         *)
(*                                                                         *)
(* Representation.                                                         *)
(*  - A time 'HH:MM' is the number of minutes since midnight; the hour     *)
(*    parseInt(time.split(':')[0]) is time \div 60.                         *)
(*  - An hour amount is a whole number of twentieths of an hour (Unit):    *)
(*    1h = 20, 0.75h = 15, 0.5h = 10, 0.1h = 2.                            *)
(*  - An instructor name is the sequence of its space-separated words      *)
(*    (name.split(' ')); 'name.includes(x)' is 'some word equals x'.       *)
(*  - A class format is its string; the substring tests on the lowercased  *)
(*    format are read from the table FormatKeywords.                       *)
(*  - A class id (built from Date.now() and Math.random()) is the position *)
(*    of the class in optimizedClasses: ids are distinct and classes are   *)
(*    never removed.                                                       *)
(***************************************************************************)
EXTENDS Integers, Sequences, FiniteSets, TLC

(***************************************************************************)
(* Bounds of the model.                                                    *)
(***************************************************************************)
\* csvData holds at most MaxRecords records of RecordPool
MaxRecords == 8

(***************************************************************************)
(* Program constants.                                                      *)
(***************************************************************************)
KW == "Kwality House, Kemps Corner"
SU == "Supreme HQ, Bandra"
KE == "Kenkere House"

locations == <<KW, SU, KE>>

AllDays == <<"Monday", "Tuesday", "Wednesday", "Thursday", "Friday", "Saturday", "Sunday">>

\* one hour, in units of 1/20 hour
Unit == 20

MaxWeeklyUnits == 15 * Unit
MaxWeeklyUnitsNew == 10 * Unit
MaxDailyUnits == 4 * Unit
MaxWorkingDays == 5
SundayMaxClasses == 5

seniorTrainers == <<"Anisha", "Vivaran", "Mrigakshi", "Pranjali", "Atulan", "Cauveri", "Rohan">>
newTrainers == <<"Kabir", "Simonelle">>
advancedFormats == {"Studio HIIT", "Studio Amped Up!"}
newTrainerAllowedFormats ==
  {"Studio Barre 57", "Studio Barre 57 (Express)", "Studio powerCycle",
   "Studio powerCycle (Express)", "Studio Cardio Barre"}
requiredFormats ==
  <<"Studio Cardio Barre", "Studio Mat 57", "Studio Back Body Blaze", "Studio Amped Up!">>

(***************************************************************************)
(* Helpers on sequences.                                                   *)
(***************************************************************************)
Range(s) == {s[i] : i \in DOMAIN s}

Min2(a, b) == IF a < b THEN a ELSE b

Abs(x) == IF x < 0 THEN -x ELSE x

\* Math.ceil(n / 2) for n >= 0
CeilHalf(n) == (n + 1) \div 2

\* the members of a set of integers, in increasing order
RECURSIVE Ascending(_)
Ascending(S) ==
  IF S = {} THEN <<>>
  ELSE LET x == CHOOSE y \in S : \A z \in S : y <= z
       IN  <<x>> \o Ascending(S \ {x})

\* the elements of s without repetition, in order of first occurrence ([...new Set(s)])
RECURSIVE Dedup(_)
Dedup(s) ==
  IF s = <<>> THEN <<>>
  ELSE LET r == Dedup(SubSeq(s, 1, Len(s) - 1))
           x == s[Len(s)]
       IN  IF x \in Range(r) THEN r ELSE Append(r, x)

\* Array.prototype.sort (stable) with a comparator that is a strict weak
\* order: s[i] goes after the elements that sort before it and after the
\* earlier elements that compare equal to it
StableSort(s, Before(_, _)) ==
  LET rank(i) == 1 + Cardinality({j \in DOMAIN s :
                        Before(s[j], s[i]) \/ (~Before(s[i], s[j]) /\ j < i)})
  IN  [p \in 1..Len(s) |-> s[CHOOSE i \in DOMAIN s : rank(i) = p]]

(***************************************************************************)
(* Instructor names.                                                       *)
(***************************************************************************)
\* teacherName.includes(word)
NameIncludes(name, word) == \E i \in DOMAIN name : name[i] = word

\* list.some(n => teacherName.includes(n))
IncludesAny(name, list) == \E i \in DOMAIN list : NameIncludes(name, list[i])

\* teacher.split(' ')[0]
FirstNameOf(name) == name[1]

\* teacher.split(' ').slice(1).join(' '), as the words of the last name
LastNameOf(name) == SubSeq(name, 2, Len(name))

\* `${cls.teacherFirstName} ${cls.teacherLastName}`: an empty last name
\* leaves a trailing space, i.e. an empty last word
FullName(cls) ==
  <<cls.teacherFirstName>> \o
    (IF cls.teacherLastName = <<>> THEN <<"">> ELSE cls.teacherLastName)

isNewTrainer(name) == IncludesAny(name, newTrainers)

isSeniorTrainer(name) == IncludesAny(name, seniorTrainers)

isInactive(name) == NameIncludes(name, "Nishanth") \/ NameIncludes(name, "Saniya")

(***************************************************************************)
(* Class formats.                                                          *)
(***************************************************************************)
\* the substrings, among those the code tests for, of each lowercased format
FormatKeywords(f) ==
  CASE f = "Studio Barre 57 (Express)"   -> {"express"}
    [] f = "Studio powerCycle (Express)" -> {"express", "powercycle"}
    [] f = "Studio powerCycle"           -> {"powercycle"}
    [] f = "Studio Recovery"             -> {"recovery"}
    [] f = "Studio HIIT"                 -> {"hiit"}
    [] f = "Studio Amped Up!"            -> {"amped up"}
    [] f = "Studio Hosted Class"         -> {"hosted"}
    [] OTHER                             -> {}

LowerIncludes(f, kw) == kw \in FormatKeywords(f)

\* getClassDuration, in units of 1/20 hour
getClassDuration(className) ==
  IF LowerIncludes(className, "express") THEN 15
  ELSE IF LowerIncludes(className, "recovery") \/ LowerIncludes(className, "sweat in 30") THEN 10
  ELSE Unit

isHostedClass(className) == LowerIncludes(className, "hosted")

isClassAllowedAtLocation(classFormat, location) ==
  IF location = SU
  THEN ~(LowerIncludes(classFormat, "amped up") \/ LowerIncludes(classFormat, "hiit"))
  ELSE ~(LowerIncludes(classFormat, "powercycle") \/ LowerIncludes(classFormat, "power cycle"))

(***************************************************************************)
(* Times.                                                                  *)
(***************************************************************************)
HM(h, m) == h * 60 + m

HourOf(time) == time \div 60

\* isTimeRestricted with the end of the restricted period included
isTimeRestricted_InclusiveEnd(time, day, isPrivateClass) ==
  LET isInRestrictedPeriod == time >= 12 * 60 /\ time <= 17 * 60
  IN  IF isPrivateClass /\ isInRestrictedPeriod THEN FALSE ELSE isInRestrictedPeriod

isTimeRestricted(time, day, isPrivateClass) ==
  LET isInRestrictedPeriod == time >= 12 * 60 /\ time < 17 * 60
  IN  IF isPrivateClass /\ isInRestrictedPeriod THEN FALSE ELSE isInRestrictedPeriod

morningSlots ==
  <<HM(7, 30), HM(8, 0), HM(8, 30), HM(9, 0), HM(9, 30), HM(10, 0), HM(10, 30),
    HM(11, 0), HM(11, 30)>>

eveningSlots == <<HM(17, 0), HM(17, 30), HM(18, 0), HM(18, 30), HM(19, 0), HM(19, 30)>>

getAvailableTimeSlots(day) == morningSlots \o eveningSlots

isMorningSlot(time) == HourOf(time) < 12

isEveningSlot(time) == HourOf(time) >= 17

isPeakHour(time) ==
  \/ HourOf(time) >= 7 /\ HourOf(time) <= 11
  \/ HourOf(time) >= 17 /\ HourOf(time) <= 19

(***************************************************************************)
(* Day guidelines and the locked seed list.                                *)
(***************************************************************************)
getDayGuidelines(day) ==
  CASE day = "Monday" ->
         [avoid |-> {"Studio Recovery"},
          priority |-> {"Studio Barre 57", "Studio FIT", "Studio powerCycle", "Studio Mat 57"}]
    [] day = "Tuesday" ->
         [avoid |-> {"Studio HIIT", "Studio Amped Up!"},
          priority |-> {"Studio Barre 57", "Studio Mat 57", "Studio Foundations", "Studio Cardio Barre"}]
    [] day = "Wednesday" ->
         [avoid |-> {},
          priority |-> {"Studio Barre 57", "Studio FIT", "Studio powerCycle", "Studio Mat 57"}]
    [] day = "Thursday" ->
         [avoid |-> {},
          priority |-> {"Studio Recovery", "Studio Mat 57", "Studio Cardio Barre", "Studio Back Body Blaze"}]
    [] day = "Friday" ->
         [avoid |-> {},
          priority |-> {"Studio HIIT", "Studio Amped Up!", "Studio FIT", "Studio Cardio Barre"}]
    [] day = "Saturday" ->
         [avoid |-> {"Studio HIIT"},
          priority |-> {"Studio Barre 57", "Studio Foundations", "Studio Recovery", "Studio Mat 57"}]
    [] day = "Sunday" ->
         [avoid |-> {"Studio HIIT", "Studio Amped Up!"},
          priority |-> {"Studio Barre 57", "Studio Recovery", "Studio Mat 57"}]
    [] OTHER -> [avoid |-> {}, priority |-> {}]

DefaultClass(f, d, t, l, who) ==
  [classFormat |-> f, day |-> d, time |-> t, location |-> l, teacher |-> who]

getDefaultTopClasses ==
  <<DefaultClass("Studio Mat 57", "Saturday", HM(10, 15), KW, <<"Karanvir", "Bhatia">>),
    DefaultClass("Studio FIT", "Tuesday", HM(19, 15), KW, <<"Anisha", "Shah">>),
    DefaultClass("Studio Mat 57", "Wednesday", HM(19, 15), KW, <<"Karanvir", "Bhatia">>),
    DefaultClass("Studio FIT", "Friday", HM(9, 0), KW, <<"Anisha", "Shah">>),
    DefaultClass("Studio Back Body Blaze", "Wednesday", HM(9, 0), KW, <<"Anisha", "Shah">>),
    DefaultClass("Studio Barre 57", "Sunday", HM(11, 30), KW, <<"Rohan", "Dahima">>),
    DefaultClass("Studio Mat 57", "Monday", HM(8, 30), KW, <<"Anisha", "Shah">>),
    DefaultClass("Studio Barre 57", "Monday", HM(18, 45), KW, <<"Pranjali", "Jain">>),
    DefaultClass("Studio powerCycle", "Sunday", HM(10, 0), SU, <<"Cauveri", "Vikrant">>),
    DefaultClass("Studio Mat 57", "Tuesday", HM(11, 0), KW, <<"Atulan", "Purohit">>)>>

(***************************************************************************)
(* The historic records.                                                   *)
(***************************************************************************)
Rec(f, l, d, t, who, n) ==
  [cleanedClass |-> f, location |-> l, dayOfWeek |-> d, classTime |-> t,
   teacherName |-> who, participants |-> n]

\* the records csvData is drawn from, in file order
RecordPool ==
  <<Rec("Studio FIT", KW, "Monday", HM(8, 0), <<"Anisha", "Shah">>, 10),
    Rec("Studio Hosted Class", KW, "Saturday", HM(10, 15), <<"Karanvir", "Bhatia">>, 25),
    Rec("Studio Barre 57", KE, "Thursday", HM(17, 0), <<"Rohan", "Dahima">>, 9),
    Rec("Studio Barre 57 (Express)", SU, "Thursday", HM(9, 0), <<"Pranjali", "Jain">>, 8),
    Rec("Studio powerCycle", SU, "Sunday", HM(10, 0), <<"Cauveri", "Vikrant">>, 8),
    Rec("Studio HIIT", KW, "Friday", HM(9, 30), <<"Atulan", "Purohit">>, 12),
    Rec("Studio Barre 57", KW, "Thursday", HM(9, 0), <<"Kabir", "Varma">>, 6),
    Rec("Studio Mat 57", KW, "Thursday", HM(9, 0), <<"Kabir", "Varma">>, 7),
    Rec("Studio Amped Up!", KE, "Thursday", HM(18, 0), <<"Reshma", "Sharma">>, 5),
    Rec("Studio Cardio Barre", KE, "Thursday", HM(9, 0), <<"Simonelle">>, 3),
    Rec("Studio Barre 57", KW, "Sunday", HM(9, 0), <<"Anisha", "Shah">>, 9)>>

\* options.targetDay; "" when the option is absent
TargetDays == {"", "Thursday"}

\* the subsequence of s at the positions in S
Pick(s, S) == LET idx == Ascending(S) IN [i \in 1..Len(idx) |-> s[idx[i]]]

(***************************************************************************)
(* State.                                                                  *)
(***************************************************************************)
VARIABLES
  csvData,                 \* the historic records (input)
  targetDay,               \* options.targetDay (input)
  optimizedClasses,        \* the schedule under construction
  teacherHoursTracker,     \* instructor -> weekly hours
  teacherDailyHours,       \* instructor -> day -> hours
  teacherShiftAssignments, \* instructor -> day -> [morning, evening]
  placed,                  \* history: each class as assignClass pushed it, and in which phase
  pc,                      \* the phase being run, "done" or "thrown"
  cursor,                  \* position of the running phase's loops
  provider,                \* AIService.provider: <<>> for null, else <<[name, key]>>
  query,                   \* the arguments of the pending AIService call
  aiPc,                    \* where the AIService call stands
  external,                \* history: what became of the external call
  aiResult,                \* the value the AIService call resolved with
  scheduledClasses,        \* App: the committed schedule
  teacherHours,            \* App: the entries [name, hours] of the teacherHours object
  editingClass,            \* App: <<>> for null, else <<the class being edited>>
  selectedSlot,            \* App: <<>> for null, else <<[day, time, location]>>
  isModalOpen,             \* App: the class modal is shown
  isOptimizing,            \* App: handleAutoOptimize awaits its schedule
  optimizationIteration,   \* App: the runs of handleAutoOptimize so far
  userActions,             \* the handlers the user has triggered so far
  outcome,                 \* history: what the last committing handler did
  topArgs,                 \* getTopPerformingClasses: <<>>, else <<[minAverage, includeTeacher]>>
  topClasses,              \* getTopPerformingClasses: the list it returned
  eoPlan,                  \* EnhancedOptimizer: the strategies still to run, the running one first
  eoCursor,                \* EnhancedOptimizer: <<location, day, time slot>> of the running strategy
  schedule,                \* EnhancedOptimizer: the running strategy's schedule
  trainerTracking,         \* EnhancedOptimizer: the running strategy's tracker
  classesScheduled,        \* EnhancedOptimizer: the running strategy's count for the day
  iterations,              \* EnhancedOptimizer: the strategies run, each with its schedule
  scheduleHistory,         \* App: the schedules saved for Undo and Redo
  historyIndex,            \* App: the position in scheduleHistory, from 0; -1 at the start
  historyShared,           \* the position of the entry that is the very array scheduledClasses is, else -1
  aiRecommendations,       \* ClassModal: the recommendations stored, each with its priority
  isLoadingAI,             \* ClassModal: loadAIRecommendations awaits its recommendations
  connectionStatus,        \* AISettings: "idle", "success" or "error"
  isTestingConnection      \* AISettings: testConnection awaits its answer

schedulerVars == <<csvData, targetDay, optimizedClasses, teacherHoursTracker,
                   teacherDailyHours, teacherShiftAssignments, placed, pc, cursor>>

aiVars == <<provider, query, aiPc, external, aiResult>>

appVars == <<scheduledClasses, teacherHours, editingClass, selectedSlot, isModalOpen,
             isOptimizing, optimizationIteration, userActions, outcome>>

topVars == <<topArgs, topClasses>>

optimizerVars == <<eoPlan, eoCursor, schedule, trainerTracking, classesScheduled, iterations>>

uiVars == <<scheduleHistory, historyIndex, historyShared, aiRecommendations, isLoadingAI,
            connectionStatus, isTestingConnection>>

toolVars == <<topVars, optimizerVars, uiVars>>

vars == <<schedulerVars, aiVars, appVars, toolVars>>

\* no AIService call is being made
AIServiceIdle ==
  /\ provider = <<>>
  /\ query = [kind |-> "none"]
  /\ aiPc = "off"
  /\ external = "none"
  /\ aiResult = <<>>

\* the App as it is constructed, with no handler triggered
AppIdle ==
  /\ scheduledClasses = <<>>
  /\ teacherHours = <<>>
  /\ editingClass = <<>>
  /\ selectedSlot = <<>>
  /\ isModalOpen = FALSE
  /\ isOptimizing = FALSE
  /\ optimizationIteration = 0
  /\ userActions = 0
  /\ outcome = [kind |-> "none"]

\* neither getTopPerformingClasses nor an EnhancedOptimizer is in use, the
\* history is empty and neither the modal nor the settings dialog has asked
\* the AIService anything
ToolsIdle ==
  /\ topArgs = <<>>
  /\ topClasses = <<>>
  /\ eoPlan = <<>>
  /\ eoCursor = <<>>
  /\ schedule = <<>>
  /\ trainerTracking = <<>>
  /\ classesScheduled = 0
  /\ iterations = <<>>
  /\ scheduleHistory = <<>>
  /\ historyIndex = -1
  /\ historyShared = -1
  /\ aiRecommendations = <<>>
  /\ isLoadingAI = FALSE
  /\ connectionStatus = "idle"
  /\ isTestingConnection = FALSE

\* const days = options.targetDay ? [options.targetDay] : [...]
DaysOf(td) == IF td # "" THEN <<td>> ELSE AllDays

days == DaysOf(targetDay)

\* [...new Set(csvData.map(item => item.teacherName))].filter(not inactive)
AllTeachersOf(csv) ==
  LET names == Dedup([i \in DOMAIN csv |-> csv[i].teacherName])
      keep == Ascending({i \in DOMAIN names : ~isInactive(names[i])})
  IN  [i \in 1..Len(keep) |-> names[keep[i]]]

allTeachers == AllTeachersOf(csvData)

\* the schedule and the trackers, as one value the phases' steps transform
Machine ==
  [oc |-> optimizedClasses, th |-> teacherHoursTracker,
   td |-> teacherDailyHours, sh |-> teacherShiftAssignments, thrown |-> FALSE]

(***************************************************************************)
(* canAssignTeacher and assignClass.                                       *)
(***************************************************************************)
\* the tenths k for which (k/10 + 0.75).toFixed(1) is (k + 7)/10, the
\* double nearest to k/10 + 0.75 lying below the midpoint; for every other
\* tenth below 15 the result is (k + 8)/10
ToFixedRoundsDown ==
  {1, 2, 4, 7, 9, 12, 13, 14, 18, 19, 23, 24, 28, 29, 33, 36, 38, 41, 43, 46, 48,
   51, 53, 56, 58, 61, 63, 66, 68, 71, 76, 77, 81, 82, 86, 87, 91, 92, 96, 97,
   101, 102, 106, 107, 111, 112, 116, 117, 121, 122, 126, 127, 131, 132, 136,
   137, 141, 142, 146, 147}

\* parseFloat((tracked + duration).toFixed(1)), for tracked a whole number
\* of tenths
AddToFixed1(tracked, duration) ==
  LET sum == tracked + duration
  IN  IF sum % 2 = 0 THEN sum
      ELSE IF (tracked \div 2) \in ToFixedRoundsDown THEN sum - 1 ELSE sum + 1

\* teacherHoursTracker[teacherName] || 0
WeeklyOf(m, teacherName) ==
  IF teacherName \in DOMAIN m.th THEN m.th[teacherName] ELSE 0

\* teacherDailyHours[teacherName]?.[day] || 0
DailyOf(m, teacherName, day) ==
  IF teacherName \in DOMAIN m.td THEN m.td[teacherName][day] ELSE 0

\* PassesTierAndHours without the weekly limit
PassesTierAndHours_NoWeeklyCap(m, teacherName, day, duration, classFormat) ==
  /\ isNewTrainer(teacherName) => classFormat \in newTrainerAllowedFormats
  /\ ~(classFormat \in advancedFormats /\ ~isSeniorTrainer(teacherName))
  /\ ~(IF teacherName \in DOMAIN m.td
       THEN m.td[teacherName][day] + duration > MaxDailyUnits
       ELSE duration > MaxDailyUnits)

\* PassesTierAndHours without the daily limit
PassesTierAndHours_NoDailyCap(m, teacherName, day, duration, classFormat) ==
  /\ isNewTrainer(teacherName) => classFormat \in newTrainerAllowedFormats
  /\ ~(classFormat \in advancedFormats /\ ~isSeniorTrainer(teacherName))
  /\ ~((IF teacherName \in DOMAIN m.th THEN m.th[teacherName] ELSE 0) + duration >
        (IF isNewTrainer(teacherName) THEN MaxWeeklyUnitsNew ELSE MaxWeeklyUnits))

\* PassesTierAndHours without the tier checks
PassesTierAndHours_NoTier(m, teacherName, day, duration, classFormat) ==
  ~(\/ (IF teacherName \in DOMAIN m.th THEN m.th[teacherName] ELSE 0) + duration >
         (IF isNewTrainer(teacherName) THEN MaxWeeklyUnitsNew ELSE MaxWeeklyUnits)
    \/ (IF teacherName \in DOMAIN m.td THEN m.td[teacherName][day] ELSE 0) + duration >
         MaxDailyUnits)

\* lines 1020-1044: the tier and hour checks that precede the days-off check
PassesTierAndHours(m, teacherName, day, duration, classFormat) ==
  LET maxWeeklyHours == IF isNewTrainer(teacherName) THEN MaxWeeklyUnitsNew ELSE MaxWeeklyUnits
  IN  /\ isNewTrainer(teacherName) => classFormat \in newTrainerAllowedFormats
      /\ ~(classFormat \in advancedFormats /\ ~isSeniorTrainer(teacherName))
      /\ ~(\/ WeeklyOf(m, teacherName) + duration > maxWeeklyHours
           \/ DailyOf(m, teacherName, day) + duration > MaxDailyUnits)

\* line 1047: Object.keys(teacherDailyHours[teacherName]) throws a TypeError
\* for an instructor the tracker was not initialised for
canAssignThrows(m, teacherName, day, duration, classFormat) ==
  /\ PassesTierAndHours(m, teacherName, day, duration, classFormat)
  /\ teacherName \notin DOMAIN m.td

\* canAssignTeacher without the days-off check
canAssignTeacher_NoDaysOff(m, teacherName, day, time, duration, classFormat) ==
  /\ PassesTierAndHours(m, teacherName, day, duration, classFormat)
  /\ teacherName \in DOMAIN m.td

canAssignTeacher(m, teacherName, day, time, duration, classFormat) ==
  /\ PassesTierAndHours(m, teacherName, day, duration, classFormat)
  /\ teacherName \in DOMAIN m.td
  /\ LET currentWorkingDays ==
           Cardinality({d \in DOMAIN m.td[teacherName] : m.td[teacherName][d] > 0})
     IN  ~(currentWorkingDays >= MaxWorkingDays /\ m.td[teacherName][day] = 0)

\* assignClass, for a teacher the tracker was initialised for
assignClass(m, classData, teacher) ==
  LET duration == getClassDuration(classData.classFormat)
      cls == [id |-> Len(m.oc) + 1,
              day |-> classData.day,
              time |-> classData.time,
              location |-> classData.location,
              classFormat |-> classData.classFormat,
              teacherFirstName |-> FirstNameOf(teacher),
              teacherLastName |-> LastNameOf(teacher),
              duration |-> duration,
              isPrivate |-> FALSE]
      shift == m.sh[teacher][classData.day]
  IN  [m EXCEPT
         !.oc = Append(m.oc, cls),
         !.th = [m.th EXCEPT ![teacher] = AddToFixed1(m.th[teacher], duration)],
         !.td = [m.td EXCEPT ![teacher][classData.day] =
                   AddToFixed1(m.td[teacher][classData.day], duration)],
         !.sh = [m.sh EXCEPT ![teacher][classData.day] =
                   IF isMorningSlot(classData.time) THEN [shift EXCEPT !.morning = TRUE]
                   ELSE IF isEveningSlot(classData.time) THEN [shift EXCEPT !.evening = TRUE]
                   ELSE shift]]

ClassData(f, l, d, t) == [classFormat |-> f, location |-> l, day |-> d, time |-> t]

\* the classes of the schedule in one cell
ClassesIn(oc, location, day, time) ==
  {i \in DOMAIN oc : oc[i].location = location /\ oc[i].day = day /\ oc[i].time = time}

\* const maxParallel = location === 'Supreme HQ, Bandra' ? 3 : 2
maxParallel(location) == IF location = SU THEN 3 ELSE 2

(***************************************************************************)
(* Initial state: the inputs, and the tracker initialised for the          *)
(* instructors of the records.                                             *)
(***************************************************************************)
Init ==
  /\ \E S \in SUBSET (DOMAIN RecordPool) :
       /\ Cardinality(S) <= MaxRecords
       /\ csvData = Pick(RecordPool, S)
  /\ targetDay \in TargetDays
  /\ optimizedClasses = <<>>
  /\ teacherHoursTracker = [t \in Range(allTeachers) |-> 0]
  /\ teacherDailyHours = [t \in Range(allTeachers) |-> [d \in Range(days) |-> 0]]
  /\ teacherShiftAssignments =
       [t \in Range(allTeachers) |-> [d \in Range(days) |-> [morning |-> FALSE, evening |-> FALSE]]]
  /\ placed = <<>>
  /\ pc = "phase0"
  /\ cursor = <<1>>
  /\ AIServiceIdle
  /\ AppIdle
  /\ ToolsIdle

\* the machine value m becomes the state; a throw ends the run
Commit(m, nextPc, nextCursor) ==
  /\ optimizedClasses' = m.oc
  /\ teacherHoursTracker' = m.th
  /\ teacherDailyHours' = m.td
  /\ teacherShiftAssignments' = m.sh
  /\ pc' = IF m.thrown THEN "thrown" ELSE nextPc
  /\ cursor' = IF m.thrown THEN <<>> ELSE nextCursor
  /\ placed' = [i \in DOMAIN m.oc |->
                  IF i \in DOMAIN placed THEN placed[i] ELSE [class |-> m.oc[i], phase |-> pc]]
  /\ aiPc' = IF aiPc # "local" THEN aiPc
             ELSE IF m.thrown THEN "rejected"
             ELSE IF nextPc = "done" THEN "resolved" ELSE aiPc
  /\ aiResult' = IF aiPc = "local" /\ ~m.thrown /\ nextPc = "done" THEN m.oc ELSE aiResult
  /\ UNCHANGED <<csvData, targetDay, provider, query, external, appVars, toolVars>>

Throw(m) == [m EXCEPT !.thrown = TRUE]

(***************************************************************************)
(* Phase 0: seed the locked classes.                                       *)
(***************************************************************************)
Phase0Class(m, defaultClass) ==
  LET duration == getClassDuration(defaultClass.classFormat)
  IN  IF targetDay # "" /\ defaultClass.day # targetDay THEN m
      ELSE IF canAssignThrows(m, defaultClass.teacher, defaultClass.day, duration,
                              defaultClass.classFormat)
      THEN Throw(m)
      ELSE IF canAssignTeacher(m, defaultClass.teacher, defaultClass.day,
                               defaultClass.time, duration, defaultClass.classFormat)
      THEN assignClass(m, ClassData(defaultClass.classFormat, defaultClass.location,
                                    defaultClass.day, defaultClass.time),
                       defaultClass.teacher)
      ELSE m

Phase0Step ==
  /\ pc = "phase0"
  /\ LET i == cursor[1]
         m == Phase0Class(Machine, getDefaultTopClasses[i])
         last == i = Len(getDefaultTopClasses)
     IN  Commit(m, IF last THEN "phase1" ELSE "phase0",
                   IF last THEN <<1, 1, 1>> ELSE <<i + 1>>)

(***************************************************************************)
(* Phase 1: fill the cells.                                                *)
(***************************************************************************)
NoFormat == ""

NoTeacher == <<>>

\* sum of the participants of the records of csv at the positions in S
RECURSIVE SumParticipants(_, _)
SumParticipants(csv, S) ==
  IF S = {} THEN 0
  ELSE LET i == CHOOSE j \in S : TRUE
       IN  csv[i].participants + SumParticipants(csv, S \ {i})

\* a / b > c / d for positive b, d
AvgGreater(a, b, c, d) == a * d > c * b

\* getBestClassForSlot: the class format of rankedFormats[0], or NoFormat
getBestClassForSlot(csv, location, day, time, guidelines) ==
  LET slotData == {i \in DOMAIN csv :
                     /\ csv[i].location = location
                     /\ csv[i].dayOfWeek = day
                     /\ csv[i].classTime = time
                     /\ ~isHostedClass(csv[i].cleanedClass)
                     /\ isClassAllowedAtLocation(csv[i].cleanedClass, location)
                     /\ csv[i].cleanedClass \notin guidelines.avoid
                     /\ csv[i].participants >= 4}
      slotSeq == Ascending(slotData)
      formats == Dedup([k \in DOMAIN slotSeq |-> csv[slotSeq[k]].cleanedClass])
      of(f) == {i \in slotData : csv[i].cleanedClass = f}
      formatStats == [k \in DOMAIN formats |->
                        [classFormat |-> formats[k],
                         participants |-> SumParticipants(csv, of(formats[k])),
                         count |-> Cardinality(of(formats[k])),
                         isPriority |-> formats[k] \in guidelines.priority]]
      Before(a, b) ==
        \/ a.isPriority /\ ~b.isPriority
        \/ /\ a.isPriority = b.isPriority
           /\ AvgGreater(a.participants, a.count, b.participants, b.count)
      rankedFormats == StableSort(formatStats, Before)
  IN  IF slotData = {} THEN NoFormat ELSE rankedFormats[1].classFormat

\* getBestTeacherForClass: the instructor, or NoTeacher for null
getBestTeacherForClass(csv, classFormat, location, day, time) ==
  LET defaults == {i \in DOMAIN getDefaultTopClasses :
                     /\ getDefaultTopClasses[i].classFormat = classFormat
                     /\ getDefaultTopClasses[i].location = location
                     /\ getDefaultTopClasses[i].day = day
                     /\ getDefaultTopClasses[i].time = time}
      relevantClasses == {i \in DOMAIN csv :
                            /\ csv[i].cleanedClass = classFormat
                            /\ csv[i].location = location
                            /\ csv[i].dayOfWeek = day
                            /\ csv[i].classTime = time
                            /\ ~isHostedClass(csv[i].cleanedClass)
                            /\ ~isInactive(csv[i].teacherName)}
      relSeq == Ascending(relevantClasses)
      teachers == Dedup([k \in DOMAIN relSeq |-> csv[relSeq[k]].teacherName])
      of(t) == {i \in relevantClasses : csv[i].teacherName = t}
      teacherStats == [k \in DOMAIN teachers |->
                         [teacher |-> teachers[k],
                          participants |-> SumParticipants(csv, of(teachers[k])),
                          count |-> Cardinality(of(teachers[k]))]]
      Before(a, b) == AvgGreater(a.participants, a.count, b.participants, b.count)
  IN  IF defaults # {} THEN getDefaultTopClasses[Ascending(defaults)[1]].teacher
      ELSE IF relevantClasses = {} THEN NoTeacher
      ELSE StableSort(teacherStats, Before)[1].teacher

\* candidateTeachers.find(teacher => canAssignTeacher(teacher, ...)), or NoTeacher
FindTeacher(m, candidateTeachers, day, time, duration, classFormat) ==
  LET ok == {k \in DOMAIN candidateTeachers :
               canAssignTeacher(m, candidateTeachers[k], day, time, duration, classFormat)}
  IN  IF ok = {} THEN NoTeacher ELSE candidateTeachers[Ascending(ok)[1]]

\* the parallel classes Phase 1 aims at in a cell
classesToSchedule(location, time) ==
  IF location = KW
  THEN (IF time \in {HM(9, 0), HM(11, 0), HM(18, 0), HM(19, 15)} THEN 2 ELSE 1)
  ELSE IF location = SU
  THEN (IF time \in {HM(8, 0), HM(9, 0), HM(10, 0), HM(18, 0), HM(19, 0)} THEN 2 ELSE 1)
  ELSE 1

ClassesOnDay(oc, day) == Cardinality({i \in DOMAIN oc : oc[i].day = day})

\* one iteration of the loop over the remaining parallel slots of a cell
Phase1Try(m, location, day, time) ==
  LET bestClass == getBestClassForSlot(csvData, location, day, time, getDayGuidelines(day))
      duration == getClassDuration(bestClass)
      existingFormats == {m.oc[i].classFormat : i \in ClassesIn(m.oc, location, day, time)}
      historic == getBestTeacherForClass(csvData, bestClass, location, day, time)
      seniors == Ascending({k \in DOMAIN allTeachers : isSeniorTrainer(allTeachers[k])})
      candidateTeachers ==
        IF isPeakHour(time) THEN [k \in DOMAIN seniors |-> allTeachers[seniors[k]]]
        ELSE allTeachers
      bestTeacher ==
        IF historic = NoTeacher \/ ~canAssignTeacher(m, historic, day, time, duration, bestClass)
        THEN FindTeacher(m, candidateTeachers, day, time, duration, bestClass)
        ELSE historic
  IN  IF bestClass = NoFormat THEN m
      ELSE IF bestClass \in existingFormats THEN m
      ELSE IF historic # NoTeacher /\ canAssignThrows(m, historic, day, duration, bestClass)
      THEN Throw(m)
      ELSE IF bestTeacher # NoTeacher
      THEN assignClass(m, ClassData(bestClass, location, day, time), bestTeacher)
      ELSE m

RECURSIVE Phase1Fill(_, _, _, _, _)
Phase1Fill(m, location, day, time, remainingSlots) ==
  IF remainingSlots <= 0 \/ m.thrown THEN m
  ELSE Phase1Fill(Phase1Try(m, location, day, time), location, day, time, remainingSlots - 1)

\* the body of the loop over the time slots, for one cell
Phase1Cell(m, day, location, time) ==
  LET availableSlots == getAvailableTimeSlots(day)
      maxClassesForDay ==
        IF day = "Sunday" THEN SundayMaxClasses ELSE Len(availableSlots) * Len(locations)
      existingClasses == ClassesIn(m.oc, location, day, time)
      remainingSlots == classesToSchedule(location, time) - Cardinality(existingClasses)
  IN  IF ClassesOnDay(m.oc, day) >= maxClassesForDay THEN m
      ELSE Phase1Fill(m, location, day, time, remainingSlots)

\* the next position of nested loops whose bounds are lens, or <<>> at the end
RECURSIVE NextCursor(_, _)
NextCursor(c, lens) ==
  IF c = <<>> THEN <<>>
  ELSE LET n == Len(c)
       IN  IF c[n] < lens[n] THEN [c EXCEPT ![n] = c[n] + 1]
           ELSE LET outer == NextCursor(SubSeq(c, 1, n - 1), SubSeq(lens, 1, n - 1))
                IN  IF outer = <<>> THEN <<>> ELSE Append(outer, 1)

NumSlots == Len(getAvailableTimeSlots("Monday"))

Phase1Step ==
  /\ pc = "phase1"
  /\ LET day == days[cursor[1]]
         location == locations[cursor[2]]
         time == getAvailableTimeSlots(day)[cursor[3]]
         next == NextCursor(cursor, <<Len(days), Len(locations), NumSlots>>)
     IN  Commit(Phase1Cell(Machine, day, location, time),
                IF next = <<>> THEN "phase2" ELSE "phase1",
                IF next = <<>> THEN <<1, 1, 1, 1>> ELSE next)

(***************************************************************************)
(* Phase 2: bring every instructor up to the weekly target.                *)
(***************************************************************************)
\* parseFloat((participants / count).toFixed(1)) in tenths, for count < 20
\* (a quotient that ends in 5 hundredths is then a dyadic number, which
\* toFixed rounds up)
AvgToFixed1(participants, count) == (20 * participants + count) \div (2 * count)

\* getTeacherSpecialties(csv)[teacher] || []
getTeacherSpecialties(csv, teacher) ==
  LET mine == {i \in DOMAIN csv :
                 /\ ~isHostedClass(csv[i].cleanedClass)
                 /\ ~isInactive(csv[i].teacherName)
                 /\ csv[i].teacherName = teacher}
      mineSeq == Ascending(mine)
      formats == Dedup([k \in DOMAIN mineSeq |-> csv[mineSeq[k]].cleanedClass])
      of(f) == {i \in mine : csv[i].cleanedClass = f}
      stats == [k \in DOMAIN formats |->
                  [classFormat |-> formats[k],
                   avgParticipants |->
                     AvgToFixed1(SumParticipants(csv, of(formats[k])), Cardinality(of(formats[k]))),
                   classCount |-> Cardinality(of(formats[k]))]]
      Before(a, b) ==
        \/ a.classCount > b.classCount
        \/ a.classCount = b.classCount /\ a.avgParticipants > b.avgParticipants
      sorted == StableSort(stats, Before)
  IN  SubSeq(sorted, 1, Min2(5, Len(sorted)))

\* teacherSpecialties.slice(0, 3)
TopSpecialties(teacher) ==
  LET all == getTeacherSpecialties(csvData, teacher)
  IN  SubSeq(all, 1, Min2(3, Len(all)))

targetHours(teacher) == IF isNewTrainer(teacher) THEN MaxWeeklyUnitsNew ELSE MaxWeeklyUnits

\* CellOpenFor without the capacity check
CellOpenFor_NoCapacity(oc, location, day, time, classFormat) ==
  \A i \in ClassesIn(oc, location, day, time) : oc[i].classFormat # classFormat

\* a cell with room for one more class, of a format it does not hold yet
CellOpenFor(oc, location, day, time, classFormat) ==
  LET existingClasses == ClassesIn(oc, location, day, time)
  IN  /\ Cardinality(existingClasses) < maxParallel(location)
      /\ \A i \in existingClasses : oc[i].classFormat # classFormat

\* Phase2Day without the location rule
Phase2Day_AnyLocation(m, teacher, classFormat, location, day) ==
  LET availableSlots == getAvailableTimeSlots(day)
      duration == getClassDuration(classFormat)
      hits == {k \in DOMAIN availableSlots :
                 /\ CellOpenFor(m.oc, location, day, availableSlots[k], classFormat)
                 /\ canAssignTeacher(m, teacher, day, availableSlots[k], duration, classFormat)}
  IN  IF m.td[teacher][day] >= MaxDailyUnits THEN m
      ELSE IF hits = {} THEN m
      ELSE assignClass(m, ClassData(classFormat, location, day,
                                    availableSlots[Ascending(hits)[1]]), teacher)

\* the body of the loop over the days: the first open time slot at which
\* the instructor can be assigned gets the class
Phase2Day(m, teacher, classFormat, location, day) ==
  LET availableSlots == getAvailableTimeSlots(day)
      duration == getClassDuration(classFormat)
      hits == {k \in DOMAIN availableSlots :
                 /\ CellOpenFor(m.oc, location, day, availableSlots[k], classFormat)
                 /\ canAssignTeacher(m, teacher, day, availableSlots[k], duration, classFormat)}
  IN  IF ~isClassAllowedAtLocation(classFormat, location) THEN m
      ELSE IF m.td[teacher][day] >= MaxDailyUnits THEN m
      ELSE IF hits = {} THEN m
      ELSE assignClass(m, ClassData(classFormat, location, day,
                                    availableSlots[Ascending(hits)[1]]), teacher)

Phase2Step ==
  /\ pc = "phase2"
  /\ IF cursor[1] > Len(allTeachers)
     THEN Commit(Machine, "phase3", <<1, 1, 1>>)
     ELSE LET teacher == allTeachers[cursor[1]]
              specialties == TopSpecialties(teacher)
              atSpecialtyStart == cursor[3] = 1 /\ cursor[4] = 1
              skipTeacher ==
                \/ cursor[2] > Len(specialties)
                \/ atSpecialtyStart /\ teacherHoursTracker[teacher] >= targetHours(teacher)
              next == NextCursor(cursor, <<Len(allTeachers), Len(specialties),
                                           Len(locations), Len(days)>>)
          IN  IF skipTeacher
              THEN Commit(Machine, "phase2", <<cursor[1] + 1, 1, 1, 1>>)
              ELSE Commit(Phase2Day(Machine, teacher, specialties[cursor[2]].classFormat,
                                    locations[cursor[3]], days[cursor[4]]),
                          "phase2",
                          IF next = <<>> THEN <<Len(allTeachers) + 1, 1, 1, 1>> ELSE next)

(***************************************************************************)
(* Phase 3: the diversity floor.                                           *)
(***************************************************************************)
FormatCount(oc, classFormat) == Cardinality({i \in DOMAIN oc : oc[i].classFormat = classFormat})

MinFormatCount == 3

\* the body of the loop over the days
Phase3Day(m, classFormat, location, day) ==
  LET availableSlots == getAvailableTimeSlots(day)
      duration == getClassDuration(classFormat)
      best(k) == getBestTeacherForClass(csvData, classFormat, location, day, availableSlots[k])
      \* the slots at which canAssignTeacher is called and returns true or throws
      hits == {k \in DOMAIN availableSlots :
                 /\ CellOpenFor(m.oc, location, day, availableSlots[k], classFormat)
                 /\ best(k) # NoTeacher
                 /\ \/ canAssignThrows(m, best(k), day, duration, classFormat)
                    \/ canAssignTeacher(m, best(k), day, availableSlots[k], duration, classFormat)}
      first == Ascending(hits)[1]
  IN  IF ~isClassAllowedAtLocation(classFormat, location) THEN m
      ELSE IF hits = {} THEN m
      ELSE IF canAssignThrows(m, best(first), day, duration, classFormat) THEN Throw(m)
      ELSE assignClass(m, ClassData(classFormat, location, day, availableSlots[first]),
                       best(first))

Phase3Step ==
  /\ pc = "phase3"
  /\ LET format == requiredFormats[cursor[1]]
         atFormatStart == cursor[2] = 1 /\ cursor[3] = 1
         skipFormat == atFormatStart /\ ~(FormatCount(optimizedClasses, format) < MinFormatCount)
         nextFormat == IF cursor[1] < Len(requiredFormats) THEN <<cursor[1] + 1, 1, 1>> ELSE <<>>
         next == IF skipFormat THEN nextFormat
                 ELSE NextCursor(cursor, <<Len(requiredFormats), Len(locations), Len(days)>>)
         m == IF skipFormat THEN Machine
              ELSE Phase3Day(Machine, format, locations[cursor[2]], days[cursor[3]])
     IN  Commit(m, IF next = <<>> THEN "phase4" ELSE "phase3",
                   IF next = <<>> THEN <<1, 1>> ELSE next)

(***************************************************************************)
(* Phase 4: consolidate the instructors of each shift.                     *)
(***************************************************************************)
\* Phase4Reassign that does not ask canAssignTeacher about the target
Phase4Reassign_Unchecked(m, day, teacher, id, targets) ==
  LET cls == m.oc[id]
      target == targets[1].teacher
  IN  IF teacher \notin DOMAIN m.td \/ target \notin DOMAIN m.td THEN Throw(m)
      ELSE [m EXCEPT
              !.oc = [m.oc EXCEPT ![id] =
                        [cls EXCEPT !.teacherFirstName = FirstNameOf(target),
                                    !.teacherLastName = LastNameOf(target)]],
              !.th = [m.th EXCEPT ![teacher] = @ - cls.duration,
                                  ![target] = @ + cls.duration],
              !.td = [m.td EXCEPT ![teacher][day] = @ - cls.duration,
                                  ![target][day] = @ + cls.duration]]

\* Phase4Reassign that pushes the class for the target and leaves the old one
Phase4Reassign_Pushed(m, day, teacher, id, targets) ==
  LET cls == m.oc[id]
      found == {k \in DOMAIN targets :
                  canAssignTeacher(m, targets[k].teacher, day, cls.time, cls.duration,
                                   cls.classFormat)}
      target == targets[Ascending(found)[1]].teacher
  IN  IF found = {} THEN m
      ELSE IF teacher \notin DOMAIN m.td THEN Throw(m)
      ELSE [m EXCEPT
              !.oc = Append(m.oc, [cls EXCEPT !.id = Len(m.oc) + 1,
                                              !.teacherFirstName = FirstNameOf(target),
                                              !.teacherLastName = LastNameOf(target)]),
              !.th = [m.th EXCEPT ![target] = @ + cls.duration],
              !.td = [m.td EXCEPT ![target][day] = @ + cls.duration]]

\* one class of a low-count instructor: reassign it to the first of the two
\* top instructors that canAssignTeacher accepts
Phase4Reassign(m, day, teacher, id, targets) ==
  LET cls == m.oc[id]
      throws(k) == canAssignThrows(m, targets[k].teacher, day, cls.duration, cls.classFormat)
      accepts(k) == canAssignTeacher(m, targets[k].teacher, day, cls.time, cls.duration,
                                     cls.classFormat)
      found == {k \in DOMAIN targets : accepts(k)}
      target == targets[Ascending(found)[1]].teacher
      \* find() stops at the first accepted target; a throw before it ends the run
      thrownInFind == \E k \in DOMAIN targets :
                        throws(k) /\ \A j \in 1..(k - 1) : ~accepts(j)
  IN  IF thrownInFind THEN Throw(m)
      ELSE IF found = {} THEN m
      ELSE IF teacher \notin DOMAIN m.td
      THEN Throw(m)
      ELSE [m EXCEPT
              !.oc = [m.oc EXCEPT ![id] =
                        [cls EXCEPT !.teacherFirstName = FirstNameOf(target),
                                    !.teacherLastName = LastNameOf(target)]],
              !.th = [m.th EXCEPT ![teacher] = @ - cls.duration,
                                  ![target] = @ + cls.duration],
              !.td = [m.td EXCEPT ![teacher][day] = @ - cls.duration,
                                  ![target][day] = @ + cls.duration]]

RECURSIVE Phase4Classes(_, _, _, _, _)
Phase4Classes(m, day, teacher, ids, targets) ==
  IF ids = <<>> \/ m.thrown THEN m
  ELSE Phase4Classes(Phase4Reassign(m, day, teacher, Head(ids), targets),
                     day, teacher, Tail(ids), targets)

RECURSIVE Phase4Teachers(_, _, _, _, _)
Phase4Teachers(m, day, shiftClasses, low, targets) ==
  IF low = <<>> \/ m.thrown THEN m
  ELSE LET teacher == Head(low).teacher
           teacherClasses ==
             Ascending({id \in shiftClasses : FullName(m.oc[id]) = teacher})
       IN  Phase4Teachers(Phase4Classes(m, day, teacher, teacherClasses, targets),
                          day, shiftClasses, Tail(low), targets)

MaxTeachersPerShift == 2

\* the consolidation of one shift; shiftClasses are the ids of its classes
Phase4Shift(m, day, shiftClasses) ==
  LET ids == Ascending(shiftClasses)
      shiftTeachers == Dedup([k \in DOMAIN ids |-> FullName(m.oc[ids[k]])])
      teacherClassCounts ==
        StableSort([k \in DOMAIN shiftTeachers |->
                      [teacher |-> shiftTeachers[k],
                       count |-> Cardinality({id \in shiftClasses :
                                                FullName(m.oc[id]) = shiftTeachers[k]})]],
                   LAMBDA a, b : a.count < b.count)
      n == Len(teacherClassCounts)
  IN  IF Len(shiftTeachers) > MaxTeachersPerShift
      THEN Phase4Teachers(m, day, shiftClasses,
                          SubSeq(teacherClassCounts, 1, n - 2),
                          SubSeq(teacherClassCounts, n - 1, n))
      ELSE m

ShiftClasses(oc, location, day, InShift(_)) ==
  {i \in DOMAIN oc : oc[i].location = location /\ oc[i].day = day /\ InShift(oc[i].time)}

Phase4Day(m, location, day) ==
  LET morningClasses == ShiftClasses(m.oc, location, day, isMorningSlot)
      eveningClasses == ShiftClasses(m.oc, location, day, isEveningSlot)
      afterMorning == Phase4Shift(m, day, morningClasses)
  IN  IF afterMorning.thrown THEN afterMorning
      ELSE Phase4Shift(afterMorning, day, eveningClasses)

Phase4Step ==
  /\ pc = "phase4"
  /\ LET next == NextCursor(cursor, <<Len(locations), Len(days)>>)
     IN  Commit(Phase4Day(Machine, locations[cursor[1]], days[cursor[2]]),
                IF next = <<>> THEN "phase5" ELSE "phase4",
                IF next = <<>> THEN <<1, 1>> ELSE next)

(***************************************************************************)
(* Phase 5: balance the mornings and the evenings.                         *)
(***************************************************************************)
getShiftBalance(oc, location, day) ==
  [morning |-> Cardinality(ShiftClasses(oc, location, day, isMorningSlot)),
   evening |-> Cardinality(ShiftClasses(oc, location, day, isEveningSlot))]

MaxImbalance == 2

\* Phase5Move that books the moved class on its instructor again
Phase5Move_Rebooked(m, location, day, id, targetSlots) ==
  LET cls == m.oc[id]
      open == {k \in DOMAIN targetSlots :
                 CellOpenFor(m.oc, location, day, targetSlots[k], cls.classFormat)}
      teacher == FullName(cls)
  IN  IF open = {} THEN m
      ELSE [m EXCEPT
              !.oc = [m.oc EXCEPT ![id] =
                        [cls EXCEPT !.time = targetSlots[Ascending(open)[1]]]],
              !.th = IF teacher \in DOMAIN m.th
                     THEN [m.th EXCEPT ![teacher] = AddToFixed1(@, cls.duration)]
                     ELSE m.th]

\* one class of the excess shift: move it to the first open slot of the
\* deficit shift
Phase5Move(m, location, day, id, targetSlots) ==
  LET cls == m.oc[id]
      open == {k \in DOMAIN targetSlots :
                 CellOpenFor(m.oc, location, day, targetSlots[k], cls.classFormat)}
  IN  IF open = {} THEN m
      ELSE [m EXCEPT !.oc = [m.oc EXCEPT ![id] =
                               [cls EXCEPT !.time = targetSlots[Ascending(open)[1]]]]]

RECURSIVE Phase5Classes(_, _, _, _, _)
Phase5Classes(m, location, day, ids, targetSlots) ==
  IF ids = <<>> THEN m
  ELSE Phase5Classes(Phase5Move(m, location, day, Head(ids), targetSlots),
                     location, day, Tail(ids), targetSlots)

Phase5Day(m, location, day) ==
  LET balance == getShiftBalance(m.oc, location, day)
      imbalance == Abs(balance.morning - balance.evening)
      morningExcess == balance.morning > balance.evening
      excessClasses ==
        Ascending(IF morningExcess THEN ShiftClasses(m.oc, location, day, isMorningSlot)
                  ELSE ShiftClasses(m.oc, location, day, isEveningSlot))
      availableSlots == getAvailableTimeSlots(day)
      targetIdx == Ascending({k \in DOMAIN availableSlots :
                                IF morningExcess THEN isEveningSlot(availableSlots[k])
                                ELSE isMorningSlot(availableSlots[k])})
      targetSlots == [k \in DOMAIN targetIdx |-> availableSlots[targetIdx[k]]]
  IN  IF imbalance > MaxImbalance
      THEN Phase5Classes(m, location, day,
                         SubSeq(excessClasses, 1, Min2(CeilHalf(imbalance), Len(excessClasses))),
                         targetSlots)
      ELSE m

Phase5Step ==
  /\ pc = "phase5"
  /\ LET next == NextCursor(cursor, <<Len(locations), Len(days)>>)
     IN  Commit(Phase5Day(Machine, locations[cursor[1]], days[cursor[2]]),
                IF next = <<>> THEN "done" ELSE "phase5",
                IF next = <<>> THEN <<>> ELSE next)

(***************************************************************************)
(* The schedule the run returns, and what the claims measure on it.        *)
(***************************************************************************)
Returned == pc = "done"

InstructorsOf(oc) == {FullName(oc[i]) : i \in DOMAIN oc}

ClassesOf(oc, name) == {i \in DOMAIN oc : FullName(oc[i]) = name}

RECURSIVE SumDurations(_, _)
SumDurations(oc, S) ==
  IF S = {} THEN 0
  ELSE LET i == CHOOSE j \in S : TRUE
       IN  oc[i].duration + SumDurations(oc, S \ {i})

WeeklyHoursOf(oc, name) == SumDurations(oc, ClassesOf(oc, name))

DailyHoursOf(oc, name, day) ==
  SumDurations(oc, {i \in ClassesOf(oc, name) : oc[i].day = day})

WorkingDaysOf(oc, name) == {oc[i].day : i \in ClassesOf(oc, name)}

\* the class was given another instructor (Phase 4) or another time (Phase 5)
\* after assignClass pushed it
Reassigned(i) == FullName(optimizedClasses[i]) # FullName(placed[i].class)

Moved(i) == optimizedClasses[i].time # placed[i].class.time

Next ==
  \/ Phase0Step
  \/ Phase1Step
  \/ Phase2Step
  \/ Phase3Step
  \/ Phase4Step
  \/ Phase5Step

Spec == Init /\ [][Next]_vars

(***************************************************************************)
(* The run on records of few cells, several of them of one format.         *)
(***************************************************************************)
\* records of Kwality House, Thursday 09:00, well and poorly attended, and
\* poorly attended records of a required format in two other cells
CellPool ==
  <<Rec("Studio Mat 57", KW, "Thursday", HM(9, 0), <<"Anisha", "Shah">>, 5),
    Rec("Studio Mat 57", KW, "Thursday", HM(9, 0), <<"Anisha", "Shah">>, 1),
    Rec("Studio Barre 57", KW, "Thursday", HM(9, 0), <<"Rohan", "Dahima">>, 3),
    Rec("Studio Barre 57", KW, "Thursday", HM(9, 0), <<"Rohan", "Dahima">>, 6),
    Rec("Studio FIT", KW, "Thursday", HM(9, 0), <<"Pranjali", "Jain">>, 2),
    Rec("Studio Amped Up!", KW, "Thursday", HM(10, 0), <<"Anisha", "Shah">>, 3),
    Rec("Studio Amped Up!", KE, "Thursday", HM(10, 0), <<"Anisha", "Shah">>, 3)>>

InitCells ==
  /\ \E S \in SUBSET (DOMAIN CellPool) : csvData = Pick(CellPool, S)
  /\ targetDay \in TargetDays
  /\ optimizedClasses = <<>>
  /\ teacherHoursTracker = [t \in Range(allTeachers) |-> 0]
  /\ teacherDailyHours = [t \in Range(allTeachers) |-> [d \in Range(days) |-> 0]]
  /\ teacherShiftAssignments =
       [t \in Range(allTeachers) |-> [d \in Range(days) |-> [morning |-> FALSE, evening |-> FALSE]]]
  /\ placed = <<>>
  /\ pc = "phase0"
  /\ cursor = <<1>>
  /\ AIServiceIdle
  /\ AppIdle
  /\ ToolsIdle

SpecCells == InitCells /\ [][Next]_vars

\* the run is synchronous code: a step that can be taken is taken
SpecCellsLive == SpecCells /\ WF_vars(Next)

(***************************************************************************)
(* AIService: generateRecommendations and generateOptimizedSchedule.       *)
(* A recommendation keeps its classFormat, expectedParticipants,           *)
(* confidence (in tenths) and priority; revenue is not part of the         *)
(* records of the model.  A class time is compared as a whole:             *)
(* classTime.includes(time.slice(0, 5)) for two 'HH:MM' texts.             *)
(***************************************************************************)
\* csvData holds at most MaxAIRecords records of RecordPool, or SeedRecords
MaxAIRecords == 3

MaxRecommendations == 5

SupportedProviders == {"OpenAI", "Anthropic", "DeepSeek", "Groq"}

\* this.provider: null, a blank key, a supported and an unsupported name
Providers ==
  {<<>>,
   <<[name |-> "OpenAI", key |-> " "]>>,
   <<[name |-> "OpenAI", key |-> "sk"]>>,
   <<[name |-> "Anthropic", key |-> "sk"]>>,
   <<[name |-> "Mistral", key |-> "sk"]>>}

\* key.trim() === ''
isBlank(key) == key \in {"", " "}

\* !this.provider || !this.provider.key || this.provider.key.trim() === ''
notConfigured(p) == p = <<>> \/ isBlank(p[1].key)

Queries ==
  {[kind |-> "recommendations", day |-> "Thursday", time |-> HM(9, 0), location |-> KW],
   [kind |-> "recommendations", day |-> "Monday", time |-> HM(8, 0), location |-> KW],
   [kind |-> "recommendations", day |-> "Thursday", time |-> HM(9, 0), location |-> SU],
   [kind |-> "schedule"]}

\* the records of one seed instructor each, with which the local schedule completes
SeedRecords == SubSeq(RecordPool, 1, 6)

AIRecordSets ==
  {Pick(RecordPool, S) : S \in {T \in SUBSET (DOMAIN RecordPool) : Cardinality(T) <= MaxAIRecords}}
    \cup {SeedRecords}

Filter(data, Keep(_)) ==
  LET idx == Ascending({i \in DOMAIN data : Keep(data[i])})
  IN  [i \in 1..Len(idx) |-> data[idx[i]]]

\* historicData.filter(location, dayOfWeek, classTime of the query)
relevantData(data, location, day, time) ==
  LET InCell(item) == item.location = location /\ item.dayOfWeek = day /\ item.classTime = time
  IN  Filter(data, InCell)

\* Math.round(participants / count)
RoundAvg(participants, count) == (2 * participants + count) \div (2 * count)

\* analyzeClassPerformance: one entry per format in order of first
\* occurrence, sorted by average participants, highest first
analyzeClassPerformance(data) ==
  LET formats == Dedup([i \in DOMAIN data |-> data[i].cleanedClass])
      Of(f) == {i \in DOMAIN data : data[i].cleanedClass = f}
      stats == [k \in DOMAIN formats |->
                  [classFormat |-> formats[k],
                   participants |-> SumParticipants(data, Of(formats[k])),
                   frequency |-> Cardinality(Of(formats[k]))]]
      Before(a, b) == AvgGreater(a.participants, a.frequency, b.participants, b.frequency)
  IN  StableSort(stats, Before)

\* getFallbackRecommendations: the five best formats of the location, or of
\* all the records when the location has none; day and time are not used
getFallbackRecommendations(data, location, day, time) ==
  LET AtLocation(item) == item.location = location
      locationData == Filter(data, AtLocation)
      finalStats == IF Len(locationData) > 0 THEN analyzeClassPerformance(locationData)
                    ELSE analyzeClassPerformance(data)
      top == SubSeq(finalStats, 1, Min2(MaxRecommendations, Len(finalStats)))
  IN  [index \in DOMAIN top |->
         [classFormat |-> top[index].classFormat,
          expectedParticipants |-> RoundAvg(top[index].participants, top[index].frequency),
          confidence |-> Min2(9, top[index].frequency),
          priority |-> 10 - (index - 1) * 2]]

\* stands for a priority that is not a number, such as "high", and for NaN,
\* which every subtraction, division, Math.ceil, Math.max and Math.min on
\* it gives
NotANumber == 1000

\* the recommendations of an external answer, as their priorities; 0 stands
\* for a recommendation that carries none
ExternalLists ==
  {<<>>, <<7, 9>>, <<0, 9, 3>>, <<9, 8, 7, 6, 5, 4>>, <<12, -3>>, <<NotANumber>>}

ExternalSchedules ==
  {<<>>,
   <<[day |-> "Monday", time |-> HM(8, 0), location |-> KW, classFormat |-> "Studio FIT",
      teacherFirstName |-> "Anisha", teacherLastName |-> <<"Shah">>, duration |-> 0]>>}

\* the text callAI returns: not JSON (or empty), or a JSON object
Contents ==
  {[json |-> FALSE, recommendations |-> <<>>, optimizedSchedule |-> <<>>]}
    \cup {[json |-> TRUE, recommendations |-> l, optimizedSchedule |-> <<>>] : l \in ExternalLists}
    \cup {[json |-> TRUE, recommendations |-> <<>>, optimizedSchedule |-> x] : x \in ExternalSchedules}

\* parseAIResponse: [] when JSON.parse throws, else the recommendations
\* with priority: rec.priority || 5
parseAIResponse(response) ==
  IF ~response.json THEN <<>>
  ELSE [i \in DOMAIN response.recommendations |->
          [classFormat |-> "from provider",
           priority |-> IF response.recommendations[i] = 0 THEN 5
                        ELSE response.recommendations[i]]]

\* recommendations.sort((a, b) => b.priority - a.priority)
sortByPriority(recommendations) ==
  LET Before(a, b) == /\ a.priority # NotANumber
                      /\ b.priority # NotANumber
                      /\ a.priority > b.priority
  IN  StableSort(recommendations, Before)

\* the classes parseOptimizedScheduleResponse maps a JSON answer to
\* (duration: cls.duration || '1')
parsedSchedule(response) ==
  [i \in DOMAIN response.optimizedSchedule |->
     [response.optimizedSchedule[i] EXCEPT !.duration = IF @ = 0 THEN Unit ELSE @]]

\* generateIntelligentSchedule is entered: the schedule is empty and the
\* trackers are initialised for the instructors of the records
generateIntelligentSchedule ==
  /\ optimizedClasses' = <<>>
  /\ teacherHoursTracker' = [t \in Range(allTeachers) |-> 0]
  /\ teacherDailyHours' = [t \in Range(allTeachers) |-> [d \in Range(days) |-> 0]]
  /\ teacherShiftAssignments' =
       [t \in Range(allTeachers) |-> [d \in Range(days) |-> [morning |-> FALSE, evening |-> FALSE]]]
  /\ placed' = <<>>
  /\ pc' = "phase0"
  /\ cursor' = <<1>>
  /\ UNCHANGED <<csvData, targetDay>>

\* the promise resolves
Resolve(result) ==
  /\ aiPc' = "resolved"
  /\ aiResult' = result
  /\ UNCHANGED schedulerVars

\* generateIntelligentLocalSchedule: generateIntelligentSchedule starts on
\* historicData, with no targetDay; its promise is what the call returns
generateIntelligentLocalSchedule ==
  /\ aiPc' = "local"
  /\ aiResult' = aiResult
  /\ generateIntelligentSchedule

\* what the catch block of the pending call does
FallBack ==
  IF query.kind = "recommendations"
  THEN Resolve(getFallbackRecommendations(csvData, query.location, query.day, query.time))
  ELSE generateIntelligentLocalSchedule

\* generateRecommendations, up to the await of fetch
generateRecommendations ==
  /\ aiPc = "idle"
  /\ query.kind = "recommendations"
  /\ IF \/ notConfigured(provider)
        \/ Len(relevantData(csvData, query.location, query.day, query.time)) = 0
     THEN FallBack /\ external' = external
     ELSE IF provider[1].name \notin SupportedProviders
     THEN FallBack /\ external' = "unsupported"
     ELSE aiPc' = "fetching" /\ UNCHANGED <<schedulerVars, external, aiResult>>
  /\ UNCHANGED <<provider, query, appVars, toolVars>>

\* generateOptimizedSchedule, up to the await of fetch
generateOptimizedSchedule ==
  /\ aiPc = "idle"
  /\ query.kind = "schedule"
  /\ IF notConfigured(provider)
     THEN FallBack /\ external' = external
     ELSE IF provider[1].name \notin SupportedProviders
     THEN FallBack /\ external' = "unsupported"
     ELSE aiPc' = "fetching" /\ UNCHANGED <<schedulerVars, external, aiResult>>
  /\ UNCHANGED <<provider, query, appVars, toolVars>>

\* fetch rejects, the status is not ok, or response.json() rejects: callAI
\* throws and the caller's catch block runs
FetchFails ==
  /\ aiPc = "fetching"
  /\ external = "none"
  /\ \E failure \in {"networkError", "httpError", "badBody"} : external' = failure
  /\ FallBack
  /\ UNCHANGED <<provider, query, appVars, toolVars>>

\* callAI returns the text of the answer
FetchAnswers ==
  /\ aiPc = "fetching"
  /\ external = "none"
  /\ \E response \in Contents :
       /\ external' = IF response.json THEN "answered" ELSE "badContent"
       /\ IF query.kind = "recommendations"
          THEN Resolve(sortByPriority(parseAIResponse(response)))
          ELSE IF response.json THEN Resolve(parsedSchedule(response))
          ELSE generateIntelligentLocalSchedule
  /\ UNCHANGED <<provider, query, appVars, toolVars>>

\* the external call never produces a response: fetch has no timeout and no
\* abort signal, so nothing in the program is enabled afterwards
FetchStalls ==
  /\ aiPc = "fetching"
  /\ external = "none"
  /\ external' = "stalled"
  /\ UNCHANGED <<schedulerVars, provider, query, aiPc, aiResult, appVars, toolVars>>

InitAI ==
  /\ csvData \in AIRecordSets
  /\ targetDay = ""
  /\ optimizedClasses = <<>>
  /\ teacherHoursTracker = <<>>
  /\ teacherDailyHours = <<>>
  /\ teacherShiftAssignments = <<>>
  /\ placed = <<>>
  /\ pc = "idle"
  /\ cursor = <<>>
  /\ provider \in Providers
  /\ query \in Queries
  /\ aiPc = "idle"
  /\ external = "none"
  /\ aiResult = <<>>
  /\ AppIdle
  /\ ToolsIdle

NextAI ==
  \/ generateRecommendations
  \/ generateOptimizedSchedule
  \/ FetchFails
  \/ FetchAnswers
  \/ FetchStalls
  \/ Phase0Step
  \/ Phase1Step
  \/ Phase2Step
  \/ Phase3Step
  \/ Phase4Step
  \/ Phase5Step

SpecAI == InitAI /\ [][NextAI]_vars

\* the pending fetch eventually gets its outcome, and the loops of
\* generateIntelligentSchedule (synchronous, over finite lists) run to
\* their end
FetchOutcome == FetchStalls \/ FetchFails \/ FetchAnswers

RunningPhases == {"phase0", "phase1", "phase2", "phase3", "phase4", "phase5"}

SpecAILive == SpecAI /\ WF_vars(FetchOutcome) /\ []<>(pc \notin RunningPhases)

AISettled == aiPc \in {"resolved", "rejected"}

(***************************************************************************)
(* App: the committed schedule and the handlers that change it.            *)
(* handleSchedule is the modal's handler (ClassModal), which ends by       *)
(* calling onSchedule = App.handleClassSchedule.                           *)
(***************************************************************************)
\* the user actions of one behaviour
MaxUserActions == 3

\* handleAutoOptimize is started after at most this many user actions
MaxActionsBeforeOptimize == 1

\* a class as the modal and the saved schedules hold it
ScheduledClass(id, f, l, d, t, who, duration) ==
  [id |-> id, day |-> d, time |-> t, location |-> l, classFormat |-> f,
   teacherFirstName |-> FirstNameOf(who), teacherLastName |-> LastNameOf(who),
   duration |-> duration, isPrivate |-> FALSE]

\* n one-hour classes of one instructor, from Monday on, on the first
\* nDays days of the week
TeacherWeek(who, n, nDays, firstId) ==
  [k \in 1..n |->
     ScheduledClass(firstId + k - 1, "Studio Barre 57", KW, AllDays[((k - 1) % nDays) + 1],
                    morningSlots[((k - 1) \div nDays) + 1], who, Unit)]

\* loadScheduledClasses(): what an earlier session saved
SavedSchedules ==
  {<<>>,
   TeacherWeek(<<"Anisha", "Shah">>, 5, 5, 1),
   TeacherWeek(<<"Anisha", "Shah">>, 14, 5, 1) \o TeacherWeek(<<"Kabir", "Varma">>, 1, 1, 15)}

\* the schedules an optimizer dialog hands to onOptimize
OfferedSchedules ==
  {TeacherWeek(<<"Anisha", "Shah">>, 15, 5, 1) \o TeacherWeek(<<"Kabir", "Varma">>, 8, 4, 16),
   TeacherWeek(<<"Anisha", "Shah">>, 16, 4, 1)}

\* the slots the user clicks
ClickSlots ==
  {[day |-> "Saturday", time |-> HM(9, 0), location |-> KW],
   [day |-> "Monday", time |-> HM(18, 0), location |-> KW]}

\* what the user selects in the modal
ModalTeachers == {<<"Anisha", "Shah">>, <<"Kabir", "Varma">>}

ModalFormats == {"Studio Barre 57", "Studio Mat 57", "Studio powerCycle"}

ModalDurations == {Unit, 2 * Unit}

\* the durations of the classes at the positions idx[1..n], added one by
\* one with toFixed(1)
RECURSIVE HoursAdded(_, _, _)
HoursAdded(classes, idx, n) ==
  IF n = 0 THEN 0
  ELSE AddToFixed1(HoursAdded(classes, idx, n - 1), classes[idx[n]].duration)

\* calculateTeacherHours; teacherHours is the list of the object's entries,
\* in insertion order: one per instructor, at the instructor's first class
calculateTeacherHours(classes) ==
  LET first == Ascending({i \in DOMAIN classes :
                            \A j \in 1..(i - 1) : FullName(classes[j]) # FullName(classes[i])})
  IN  [k \in DOMAIN first |->
         LET name == FullName(classes[first[k]])
             idx == Ascending({i \in DOMAIN classes : FullName(classes[i]) = name})
         IN  [name |-> name, hours |-> HoursAdded(classes, idx, Len(idx))]]

\* teacherHours[name] || 0
HoursOf(hours, name) ==
  IF \E k \in DOMAIN hours : hours[k].name = name
  THEN hours[CHOOSE k \in DOMAIN hours : hours[k].name = name].hours
  ELSE 0

\* validateTeacherHours with >= in place of > in the limit check
validateTeacherHours_AtLimit(classes, newClass) ==
  LET teacherName == FullName(newClass)
      currentHours == SumDurations(classes, {i \in DOMAIN classes : FullName(classes[i]) = teacherName})
      newTotal == currentHours + newClass.duration
      maxHours == IF IncludesAny(teacherName, <<"Kabir", "Simonelle">>) THEN 10 * Unit ELSE 15 * Unit
  IN  IF newTotal >= maxHours THEN [isValid |-> FALSE, error |-> TRUE, warning |-> FALSE]
      ELSE IF newTotal > maxHours - 3 * Unit THEN [isValid |-> TRUE, error |-> FALSE, warning |-> TRUE]
      ELSE [isValid |-> TRUE, error |-> FALSE, warning |-> FALSE]

\* validateTeacherHours; error and warning say whether the result carries one
validateTeacherHours(classes, newClass) ==
  LET teacherName == FullName(newClass)
      currentHours == SumDurations(classes, {i \in DOMAIN classes : FullName(classes[i]) = teacherName})
      newTotal == currentHours + newClass.duration
      maxHours == IF IncludesAny(teacherName, <<"Kabir", "Simonelle">>) THEN 10 * Unit ELSE 15 * Unit
  IN  IF newTotal > maxHours THEN [isValid |-> FALSE, error |-> TRUE, warning |-> FALSE]
      ELSE IF newTotal > maxHours - 3 * Unit THEN [isValid |-> TRUE, error |-> FALSE, warning |-> TRUE]
      ELSE [isValid |-> TRUE, error |-> FALSE, warning |-> FALSE]

\* getTeacherValidation: validateTeacherHours on one pseudo-class per entry
\* of teacherHours, whose duration is the entry's hours
getTeacherValidation(hours, mockClass) ==
  LET existing == [k \in DOMAIN hours |->
                     ScheduledClass(0, "Existing", mockClass.location, "Monday", HM(9, 0),
                                    hours[k].name, hours[k].hours)]
  IN  validateTeacherHours(existing, mockClass)

\* parseFloat((total / count).toFixed(1)) of getClassAverageForSlot, in
\* tenths; teacher is NoTeacher when the argument is absent
getClassAverageForSlot(csv, classFormat, location, day, time, teacher) ==
  LET relevantClasses == {i \in DOMAIN csv :
                            /\ csv[i].cleanedClass = classFormat
                            /\ csv[i].location = location
                            /\ csv[i].dayOfWeek = day
                            /\ csv[i].classTime = time
                            /\ ~isHostedClass(csv[i].cleanedClass)
                            /\ (teacher # NoTeacher => csv[i].teacherName = teacher)}
  IN  IF relevantClasses = {} THEN 0
      ELSE AvgToFixed1(SumParticipants(csv, relevantClasses), Cardinality(relevantClasses))

\* Date.now() in an id: a number no class of the schedule carries
FreshId(classes) ==
  1 + (IF classes = <<>> THEN 0
       ELSE CHOOSE n \in {classes[i].id : i \in DOMAIN classes} :
              \A i \in DOMAIN classes : classes[i].id <= n)

\* the modal's newTrainerFormats
newTrainerFormats ==
  {"Studio Barre 57", "Studio Barre 57 (Express)", "Studio powerCycle",
   "Studio powerCycle (Express)", "Studio Cardio Barre"}

\* the checks of the modal's handleSchedule that end in alert(...); return
ModalRefuses(selectedClass, selectedTeacher, duration) ==
  \/ ~isClassAllowedAtLocation(selectedClass, selectedSlot[1].location)
  \/ IncludesAny(selectedTeacher, newTrainers) /\ selectedClass \notin newTrainerFormats
  \/ IncludesAny(selectedTeacher, newTrainers)
       /\ HoursOf(teacherHours, selectedTeacher) + duration > 10 * Unit

\* the modal asks whether to proceed with an instructor below the best one
ModalAsksAboutTeacher(selectedClass, selectedTeacher) ==
  LET slot == selectedSlot[1]
      bestTeacher == getBestTeacherForClass(csvData, selectedClass, slot.location, slot.day, slot.time)
  IN  /\ bestTeacher # NoTeacher
      /\ bestTeacher # selectedTeacher
      /\ getClassAverageForSlot(csvData, selectedClass, slot.location, slot.day, slot.time,
                                selectedTeacher)
           < getClassAverageForSlot(csvData, selectedClass, slot.location, slot.day, slot.time,
                                    NoTeacher)

\* App.handleClassSchedule: the new value of scheduledClasses, and whether
\* the handler ran to its end
handleClassSchedule(classData, proceed) ==
  IF editingClass # <<>>
  THEN [done |-> TRUE,
        classes |-> [i \in DOMAIN scheduledClasses |->
                       IF scheduledClasses[i].id = editingClass[1].id THEN classData
                       ELSE scheduledClasses[i]]]
  ELSE LET validation == validateTeacherHours(scheduledClasses, classData)
       IN  IF ~validation.isValid \/ (validation.warning /\ ~proceed)
           THEN [done |-> FALSE, classes |-> scheduledClasses]
           ELSE [done |-> TRUE, classes |-> Append(scheduledClasses, classData)]

\* the instructors of a schedule whose hours, added with toFixed(1) as
\* teacherHoursCheck adds them, exceed 15
invalidTeachers(classes) ==
  LET teacherHoursCheck == calculateTeacherHours(classes)
  IN  {teacherHoursCheck[k].name : k \in {j \in DOMAIN teacherHoursCheck :
                                            teacherHoursCheck[j].hours > 15 * Unit}}

\* a handler counts as one user action
UserActs ==
  /\ userActions < MaxUserActions
  /\ ~isOptimizing
  /\ userActions' = userActions + 1

\* App.handleSlotClick
handleSlotClick ==
  /\ UserActs
  /\ \E slot \in ClickSlots : selectedSlot' = <<slot>>
  /\ editingClass' = <<>>
  /\ isModalOpen' = TRUE
  /\ UNCHANGED <<scheduledClasses, teacherHours, isOptimizing, optimizationIteration, outcome>>
  /\ UNCHANGED <<schedulerVars, aiVars, toolVars>>

\* App.handleClassEdit
handleClassEdit ==
  /\ UserActs
  /\ \E i \in DOMAIN scheduledClasses :
       /\ editingClass' = <<scheduledClasses[i]>>
       /\ selectedSlot' = <<[day |-> scheduledClasses[i].day, time |-> scheduledClasses[i].time,
                             location |-> scheduledClasses[i].location]>>
  /\ isModalOpen' = TRUE
  /\ UNCHANGED <<scheduledClasses, teacherHours, isOptimizing, optimizationIteration, outcome>>
  /\ UNCHANGED <<schedulerVars, aiVars, toolVars>>

\* ClassModal.handleSchedule with the form filled in, down to and including
\* onSchedule = App.handleClassSchedule; the confirm dialogs are answered
\* by proceed
handleSchedule ==
  /\ UserActs
  /\ isModalOpen
  /\ \E selectedTeacher \in ModalTeachers, selectedClass \in ModalFormats,
        duration \in ModalDurations, proceed \in BOOLEAN :
       LET slot == selectedSlot[1]
           scheduledClass ==
             ScheduledClass(IF editingClass # <<>> THEN editingClass[1].id
                            ELSE FreshId(scheduledClasses),
                            selectedClass, slot.location, slot.day, slot.time,
                            selectedTeacher, duration)
           validation == getTeacherValidation(teacherHours, scheduledClass)
           asked == validation.warning \/ ModalAsksAboutTeacher(selectedClass, selectedTeacher)
           result == handleClassSchedule(scheduledClass, proceed)
       IN  IF \/ ModalRefuses(selectedClass, selectedTeacher, duration)
              \/ ~validation.isValid
              \/ asked /\ ~proceed
              \/ ~result.done
           THEN /\ outcome' = [kind |-> "manual", class |-> scheduledClass, committed |-> FALSE]
                /\ UNCHANGED <<scheduledClasses, teacherHours, editingClass, isModalOpen>>
           ELSE /\ outcome' = [kind |-> "manual", class |-> scheduledClass, committed |-> TRUE]
                /\ scheduledClasses' = result.classes
                /\ teacherHours' = calculateTeacherHours(scheduledClasses)
                /\ isModalOpen' = FALSE
                /\ editingClass' = <<>>
  /\ UNCHANGED <<selectedSlot, isOptimizing, optimizationIteration>>
  /\ UNCHANGED <<schedulerVars, aiVars, toolVars>>

\* App.handleOptimizedSchedule, called by an optimizer dialog with its schedule
handleOptimizedSchedule ==
  /\ UserActs
  /\ \E offered \in OfferedSchedules :
       IF invalidTeachers(offered) # {}
       THEN /\ outcome' = [kind |-> "optimized", offered |-> offered, alert |-> "adjust"]
            /\ UNCHANGED <<scheduledClasses, teacherHours>>
       ELSE /\ outcome' = [kind |-> "optimized", offered |-> offered, alert |-> "none"]
            /\ scheduledClasses' = offered
            /\ teacherHours' = calculateTeacherHours(offered)
  /\ UNCHANGED <<editingClass, selectedSlot, isModalOpen, isOptimizing, optimizationIteration>>
  /\ UNCHANGED <<schedulerVars, aiVars, toolVars>>

\* App.handleAutoOptimize, up to the await of generateIntelligentSchedule
handleAutoOptimize ==
  /\ UserActs
  /\ userActions <= MaxActionsBeforeOptimize
  /\ IF Len(csvData) = 0
     THEN /\ outcome' = [kind |-> "auto", offered |-> <<>>, alert |-> "upload"]
          /\ UNCHANGED <<schedulerVars, isOptimizing>>
     ELSE /\ isOptimizing' = TRUE
          /\ generateIntelligentSchedule
          /\ outcome' = outcome
  /\ UNCHANGED <<scheduledClasses, teacherHours, editingClass, selectedSlot, isModalOpen,
                 optimizationIteration>>
  /\ UNCHANGED <<aiVars, toolVars>>

\* App.handleAutoOptimize from the await on: the try block's remainder, or
\* the catch block, then the finally block
handleAutoOptimizeResume ==
  /\ isOptimizing
  /\ pc \in {"done", "thrown"}
  /\ IF pc = "done"
     THEN /\ outcome' = [kind |-> "auto", offered |-> optimizedClasses,
                         alert |-> IF invalidTeachers(optimizedClasses) # {}
                                   THEN "warning" ELSE "complete"]
          /\ optimizationIteration' = optimizationIteration + 1
          /\ scheduledClasses' = optimizedClasses
          /\ teacherHours' = calculateTeacherHours(optimizedClasses)
     ELSE /\ outcome' = [kind |-> "auto", offered |-> <<>>, alert |-> "error"]
          /\ UNCHANGED <<scheduledClasses, teacherHours, optimizationIteration>>
  /\ isOptimizing' = FALSE
  /\ UNCHANGED <<editingClass, selectedSlot, isModalOpen, userActions>>
  /\ UNCHANGED <<schedulerVars, aiVars, toolVars>>

\* the App after its mount effect: the schedule an earlier session saved,
\* with its hours, and the records of the uploaded file
InitApp ==
  /\ csvData \in {<<>>, SeedRecords}
  /\ targetDay = ""
  /\ optimizedClasses = <<>>
  /\ teacherHoursTracker = <<>>
  /\ teacherDailyHours = <<>>
  /\ teacherShiftAssignments = <<>>
  /\ placed = <<>>
  /\ pc = "idle"
  /\ cursor = <<>>
  /\ AIServiceIdle
  /\ scheduledClasses \in SavedSchedules
  /\ teacherHours = calculateTeacherHours(scheduledClasses)
  /\ editingClass = <<>>
  /\ selectedSlot = <<>>
  /\ isModalOpen = FALSE
  /\ isOptimizing = FALSE
  /\ optimizationIteration = 0
  /\ userActions = 0
  /\ outcome = [kind |-> "none"]
  /\ ToolsIdle

NextApp ==
  \/ handleSlotClick
  \/ handleClassEdit
  \/ handleSchedule
  \/ handleOptimizedSchedule
  \/ handleAutoOptimize
  \/ handleAutoOptimizeResume
  \/ Phase0Step
  \/ Phase1Step
  \/ Phase2Step
  \/ Phase3Step
  \/ Phase4Step
  \/ Phase5Step

SpecApp == InitApp /\ [][NextApp]_vars

(***************************************************************************)
(* The App's history: the effect on scheduledClasses, Undo, Redo and       *)
(* Clear All.  The effect runs after a render in which scheduledClasses is *)
(* another array than in the render before; historyShared tells which      *)
(* entry of the history, if any, is that very array.                       *)
(***************************************************************************)
\* the handlers of one behaviour of the history
MaxHistoryActions == 5

\* useEffect(..., [scheduledClasses]) "Save to history when schedule
\* changes", run with the render's schedule, history and index: the history
\* up to the index, then a copy of the schedule
SaveToHistory(classes, history, index, shared) ==
  IF Len(classes) > 0
  THEN LET newHistory == Append(SubSeq(history, 1, index + 1), classes)
       IN  [history |-> newHistory, index |-> Len(newHistory) - 1,
            shared |-> IF shared <= index THEN shared ELSE -1]
  ELSE [history |-> history, index |-> index, shared |-> shared]

\* the render after a handler set the index and the entry at position
\* target as the schedule: the effect runs unless scheduledClasses already
\* was that array
RenderEntry(target) ==
  IF historyShared = target
  THEN [history |-> scheduleHistory, index |-> target, shared |-> target]
  ELSE SaveToHistory(scheduleHistory[target + 1], scheduleHistory, target, target)

HistoryActs ==
  /\ userActions < MaxHistoryActions
  /\ userActions' = userActions + 1

\* the modal hands a new class to onSchedule = App.handleClassSchedule, and
\* the effect saves the schedule
onSchedule ==
  /\ HistoryActs
  /\ \E selectedTeacher \in ModalTeachers, slot \in ClickSlots, proceed \in BOOLEAN :
       LET classData == ScheduledClass(FreshId(scheduledClasses), "Studio Barre 57",
                                       slot.location, slot.day, slot.time, selectedTeacher, Unit)
           result == handleClassSchedule(classData, proceed)
           saved == SaveToHistory(result.classes, scheduleHistory, historyIndex, -1)
       IN  /\ result.done
           /\ scheduledClasses' = result.classes
           /\ teacherHours' = calculateTeacherHours(scheduledClasses)
           /\ scheduleHistory' = saved.history
           /\ historyIndex' = saved.index
           /\ historyShared' = saved.shared
  /\ outcome' = [kind |-> "schedule"]
  /\ UNCHANGED <<editingClass, selectedSlot, isModalOpen, isOptimizing, optimizationIteration>>
  /\ UNCHANGED <<aiRecommendations, isLoadingAI, connectionStatus, isTestingConnection>>
  /\ UNCHANGED <<schedulerVars, aiVars, topVars, optimizerVars>>

\* App.handleUndo and the render that follows
handleUndo ==
  /\ HistoryActs
  /\ historyIndex > 0
  /\ LET rendered == RenderEntry(historyIndex - 1)
     IN  /\ scheduledClasses' = scheduleHistory[historyIndex]
         /\ teacherHours' = calculateTeacherHours(scheduleHistory[historyIndex])
         /\ scheduleHistory' = rendered.history
         /\ historyIndex' = rendered.index
         /\ historyShared' = rendered.shared
  /\ outcome' = [kind |-> "undo"]
  /\ UNCHANGED <<editingClass, selectedSlot, isModalOpen, isOptimizing, optimizationIteration>>
  /\ UNCHANGED <<aiRecommendations, isLoadingAI, connectionStatus, isTestingConnection>>
  /\ UNCHANGED <<schedulerVars, aiVars, topVars, optimizerVars>>

\* App.handleRedo and the render that follows
handleRedo ==
  /\ HistoryActs
  /\ historyIndex < Len(scheduleHistory) - 1
  /\ LET rendered == RenderEntry(historyIndex + 1)
     IN  /\ scheduledClasses' = scheduleHistory[historyIndex + 2]
         /\ teacherHours' = calculateTeacherHours(scheduleHistory[historyIndex + 2])
         /\ scheduleHistory' = rendered.history
         /\ historyIndex' = rendered.index
         /\ historyShared' = rendered.shared
  /\ outcome' = [kind |-> "redo"]
  /\ UNCHANGED <<editingClass, selectedSlot, isModalOpen, isOptimizing, optimizationIteration>>
  /\ UNCHANGED <<aiRecommendations, isLoadingAI, connectionStatus, isTestingConnection>>
  /\ UNCHANGED <<schedulerVars, aiVars, topVars, optimizerVars>>

\* App.handleClearAll, the confirm dialog answered with yes: the effect
\* runs on the empty schedule and saves nothing
handleClearAll ==
  /\ HistoryActs
  /\ scheduledClasses' = <<>>
  /\ teacherHours' = <<>>
  /\ historyShared' = -1
  /\ outcome' = [kind |-> "clear"]
  /\ UNCHANGED <<scheduleHistory, historyIndex>>
  /\ UNCHANGED <<editingClass, selectedSlot, isModalOpen, isOptimizing, optimizationIteration>>
  /\ UNCHANGED <<aiRecommendations, isLoadingAI, connectionStatus, isTestingConnection>>
  /\ UNCHANGED <<schedulerVars, aiVars, topVars, optimizerVars>>

\* the App once mounted: the saved schedule loaded and, when it has a
\* class, saved by the effect as the first entry of the history
InitHistory ==
  /\ csvData = <<>>
  /\ targetDay = ""
  /\ optimizedClasses = <<>>
  /\ teacherHoursTracker = <<>>
  /\ teacherDailyHours = <<>>
  /\ teacherShiftAssignments = <<>>
  /\ placed = <<>>
  /\ pc = "idle"
  /\ cursor = <<>>
  /\ AIServiceIdle
  /\ scheduledClasses \in SavedSchedules
  /\ teacherHours = calculateTeacherHours(scheduledClasses)
  /\ editingClass = <<>>
  /\ selectedSlot = <<>>
  /\ isModalOpen = FALSE
  /\ isOptimizing = FALSE
  /\ optimizationIteration = 0
  /\ userActions = 0
  /\ outcome = [kind |-> "none"]
  /\ topArgs = <<>>
  /\ topClasses = <<>>
  /\ eoPlan = <<>>
  /\ eoCursor = <<>>
  /\ schedule = <<>>
  /\ trainerTracking = <<>>
  /\ classesScheduled = 0
  /\ iterations = <<>>
  /\ scheduleHistory = SaveToHistory(scheduledClasses, <<>>, -1, -1).history
  /\ historyIndex = SaveToHistory(scheduledClasses, <<>>, -1, -1).index
  /\ historyShared = -1
  /\ aiRecommendations = <<>>
  /\ isLoadingAI = FALSE
  /\ connectionStatus = "idle"
  /\ isTestingConnection = FALSE

NextHistory ==
  \/ onSchedule
  \/ handleUndo
  \/ handleRedo
  \/ handleClearAll

SpecHistory == InitHistory /\ [][NextHistory]_vars

(***************************************************************************)
(* The class modal: loadAIRecommendations asks the AIService for the       *)
(* slot's recommendations and stores them with rescaled priorities.        *)
(***************************************************************************)
\* Math.min(5, Math.max(1, Math.ceil(priority / 2)))
scaledPriority(priority) ==
  IF priority = NotANumber THEN NotANumber
  ELSE LET half == CeilHalf(priority)
       IN  Min2(5, IF half < 1 THEN 1 ELSE half)

\* loadAIRecommendations, up to the await of aiService.generateRecommendations
loadAIRecommendations ==
  /\ UserActs
  /\ ~isLoadingAI
  /\ aiPc = "off"
  /\ \E slot \in Queries :
       /\ slot.kind = "recommendations"
       /\ query' = slot
  /\ isLoadingAI' = TRUE
  /\ aiPc' = "idle"
  /\ external' = "none"
  /\ aiResult' = <<>>
  /\ UNCHANGED <<scheduledClasses, teacherHours, editingClass, selectedSlot, isModalOpen,
                 isOptimizing, optimizationIteration, outcome>>
  /\ UNCHANGED <<scheduleHistory, historyIndex, historyShared, aiRecommendations,
                 connectionStatus, isTestingConnection>>
  /\ UNCHANGED <<schedulerVars, provider, topVars, optimizerVars>>

\* loadAIRecommendations, from the await on: the recommendations are
\* rescaled and stored, and the finally block ends the loading
setAiRecommendations ==
  /\ isLoadingAI
  /\ aiPc = "resolved"
  /\ aiRecommendations' =
       [i \in DOMAIN aiResult |-> [aiResult[i] EXCEPT !.priority = scaledPriority(@)]]
  /\ isLoadingAI' = FALSE
  /\ aiPc' = "off"
  /\ UNCHANGED <<scheduleHistory, historyIndex, historyShared, connectionStatus,
                 isTestingConnection>>
  /\ UNCHANGED <<schedulerVars, provider, query, external, aiResult, appVars, topVars,
                 optimizerVars>>

InitModal ==
  /\ csvData \in AIRecordSets
  /\ targetDay = ""
  /\ optimizedClasses = <<>>
  /\ teacherHoursTracker = <<>>
  /\ teacherDailyHours = <<>>
  /\ teacherShiftAssignments = <<>>
  /\ placed = <<>>
  /\ pc = "idle"
  /\ cursor = <<>>
  /\ provider \in Providers
  /\ query = [kind |-> "none"]
  /\ aiPc = "off"
  /\ external = "none"
  /\ aiResult = <<>>
  /\ AppIdle
  /\ ToolsIdle

NextModal ==
  \/ loadAIRecommendations
  \/ generateRecommendations
  \/ FetchFails
  \/ FetchAnswers
  \/ FetchStalls
  \/ setAiRecommendations

SpecModal == InitModal /\ [][NextModal]_vars

(***************************************************************************)
(* The settings dialog: testConnection configures the AIService with the   *)
(* dialog's provider and key and asks it for the recommendations of one    *)
(* test record.                                                            *)
(***************************************************************************)
\* the dialog's providers and what the key field holds
SettingsProviders == {"DeepSeek", "OpenAI", "Anthropic", "Groq"}

ApiKeys == {" ", "sk", "revoked"}

\* const testData = [{...}]
testData == <<Rec("Test Class", "Test Location", "Monday", HM(9, 0), <<"Test", "Teacher">>, 10)>>

\* testConnection, up to the await of aiService.generateRecommendations; a
\* blank key gets an alert and nothing else
testConnection ==
  /\ UserActs
  /\ ~isTestingConnection
  /\ aiPc = "off"
  /\ \E selectedProvider \in SettingsProviders, apiKey \in ApiKeys :
       /\ ~isBlank(apiKey)
       /\ provider' = <<[name |-> selectedProvider, key |-> apiKey]>>
  /\ isTestingConnection' = TRUE
  /\ connectionStatus' = "idle"
  /\ query' = [kind |-> "recommendations", day |-> "Monday", time |-> HM(9, 0),
               location |-> "Test Location"]
  /\ aiPc' = "idle"
  /\ external' = "none"
  /\ aiResult' = <<>>
  /\ UNCHANGED <<scheduledClasses, teacherHours, editingClass, selectedSlot, isModalOpen,
                 isOptimizing, optimizationIteration, outcome>>
  /\ UNCHANGED <<scheduleHistory, historyIndex, historyShared, aiRecommendations, isLoadingAI>>
  /\ UNCHANGED <<schedulerVars, topVars, optimizerVars>>

\* testConnection, from the await on: the promise resolved, so the status
\* is 'success'; the catch block needs a rejection, and
\* generateRecommendations catches every failure of the call itself
testConnectionEnds ==
  /\ isTestingConnection
  /\ aiPc = "resolved"
  /\ connectionStatus' = "success"
  /\ isTestingConnection' = FALSE
  /\ aiPc' = "off"
  /\ UNCHANGED <<scheduleHistory, historyIndex, historyShared, aiRecommendations, isLoadingAI>>
  /\ UNCHANGED <<schedulerVars, provider, query, external, aiResult, appVars, topVars,
                 optimizerVars>>

\* the dialog opened on an AIService as the App's mount effect left it; the
\* records are those of the test
InitSettings ==
  /\ csvData = testData
  /\ targetDay = ""
  /\ optimizedClasses = <<>>
  /\ teacherHoursTracker = <<>>
  /\ teacherDailyHours = <<>>
  /\ teacherShiftAssignments = <<>>
  /\ placed = <<>>
  /\ pc = "idle"
  /\ cursor = <<>>
  /\ provider \in Providers
  /\ query = [kind |-> "none"]
  /\ aiPc = "off"
  /\ external = "none"
  /\ aiResult = <<>>
  /\ AppIdle
  /\ ToolsIdle

NextSettings ==
  \/ testConnection
  \/ generateRecommendations
  \/ FetchFails
  \/ FetchAnswers
  \/ FetchStalls
  \/ testConnectionEnds

SpecSettings == InitSettings /\ [][NextSettings]_vars

(***************************************************************************)
(* getTopPerformingClasses.                                                *)
(***************************************************************************)
\* the records of one call
MaxTopRecords == 4

\* the records a call is made with, in any order and with repetitions; the
\* first falls in the cell of a seed
TopPool ==
  <<Rec("Studio Mat 57", KW, "Saturday", HM(10, 15), <<"Karanvir", "Bhatia">>, 12),
    Rec("Studio Barre 57", KW, "Thursday", HM(9, 0), <<"Kabir", "Varma">>, 6),
    Rec("Studio Barre 57", KW, "Thursday", HM(9, 0), <<"Anisha", "Shah">>, 9),
    Rec("Studio Hosted Class", KW, "Thursday", HM(9, 0), <<"Anisha", "Shah">>, 25),
    Rec("Studio powerCycle", KW, "Thursday", HM(9, 0), <<"Anisha", "Shah">>, 11)>>

TopRecordLists ==
  UNION {[1..n -> Range(TopPool)] : n \in 0..MaxTopRecords}

\* minAverage, in tenths
MinAverages == {50, 60, 100}

\* (classFormat, location, day, time) of an entry
CellOf(cls) == <<cls.classFormat, cls.location, cls.day, cls.time>>

\* the key of a record's group; the teacher is part of it with includeTeacher
GroupKey(item, includeTeacher) ==
  [classFormat |-> item.cleanedClass, location |-> item.location, day |-> item.dayOfWeek,
   time |-> item.classTime, teacher |-> IF includeTeacher THEN item.teacherName ELSE <<>>]

\* the groups of the valid records in insertion order, each with its
\* average (toFixed(1), in tenths) and its frequency
TopGroups(csv, includeTeacher) ==
  LET validClasses == {i \in DOMAIN csv :
                         /\ ~isHostedClass(csv[i].cleanedClass)
                         /\ isClassAllowedAtLocation(csv[i].cleanedClass, csv[i].location)}
      first == Ascending({i \in validClasses :
                            \A j \in validClasses :
                              j < i => GroupKey(csv[j], includeTeacher) # GroupKey(csv[i], includeTeacher)})
  IN  [k \in DOMAIN first |->
         LET key == GroupKey(csv[first[k]], includeTeacher)
             members == {i \in validClasses : GroupKey(csv[i], includeTeacher) = key}
         IN  [classFormat |-> key.classFormat, location |-> key.location, day |-> key.day,
              time |-> key.time, teacher |-> key.teacher,
              avgParticipants |-> AvgToFixed1(SumParticipants(csv, members), Cardinality(members)),
              frequency |-> Cardinality(members)]]

\* the sort's comparator is negative: a goes before b
TopBefore(a, b) ==
  IF Abs(b.avgParticipants - a.avgParticipants) > 10
  THEN b.avgParticipants < a.avgParticipants
  ELSE b.frequency < a.frequency

\* the groups kept by the filter, sorted; MaxTopRecords leaves at most two
\* groups of frequency 2, which the comparator orders consistently
ComputedTopClasses(csv, minAverage, includeTeacher) ==
  LET groups == TopGroups(csv, includeTeacher)
      keep == Ascending({k \in DOMAIN groups :
                           groups[k].frequency >= 2 /\ groups[k].avgParticipants >= minAverage})
  IN  StableSort([k \in DOMAIN keep |-> groups[keep[k]]], TopBefore)

\* the seeds as TopPerformingClass entries, less avgParticipants and
\* avgRevenue, which nothing after the merge reads
defaultTopClasses ==
  [k \in DOMAIN getDefaultTopClasses |->
     [classFormat |-> getDefaultTopClasses[k].classFormat,
      location |-> getDefaultTopClasses[k].location,
      day |-> getDefaultTopClasses[k].day,
      time |-> getDefaultTopClasses[k].time,
      teacher |-> getDefaultTopClasses[k].teacher,
      frequency |-> 10]]

\* getTopPerformingClasses without the filter on findIndex
getTopPerformingClasses_NoDedup(csv, minAverage, includeTeacher) ==
  defaultTopClasses \o ComputedTopClasses(csv, minAverage, includeTeacher)

getTopPerformingClasses(csv, minAverage, includeTeacher) ==
  LET allTopClasses == defaultTopClasses \o ComputedTopClasses(csv, minAverage, includeTeacher)
      uniqueClasses == Ascending({i \in DOMAIN allTopClasses :
                                    \A j \in 1..(i - 1) :
                                      CellOf(allTopClasses[j]) # CellOf(allTopClasses[i])})
  IN  [k \in DOMAIN uniqueClasses |-> allTopClasses[uniqueClasses[k]]]

\* a caller calls getTopPerformingClasses on csvData
CallTopPerformingClasses ==
  /\ topArgs = <<>>
  /\ \E minAverage \in MinAverages, includeTeacher \in BOOLEAN :
       /\ topArgs' = <<[minAverage |-> minAverage, includeTeacher |-> includeTeacher]>>
       /\ topClasses' = getTopPerformingClasses(csvData, minAverage, includeTeacher)
  /\ UNCHANGED <<schedulerVars, aiVars, appVars, optimizerVars, uiVars>>

InitTop ==
  /\ csvData \in TopRecordLists
  /\ targetDay = ""
  /\ optimizedClasses = <<>>
  /\ teacherHoursTracker = <<>>
  /\ teacherDailyHours = <<>>
  /\ teacherShiftAssignments = <<>>
  /\ placed = <<>>
  /\ pc = "idle"
  /\ cursor = <<>>
  /\ AIServiceIdle
  /\ AppIdle
  /\ ToolsIdle

NextTop == CallTopPerformingClasses

SpecTop == InitTop /\ [][NextTop]_vars

(***************************************************************************)
(* EnhancedOptimizer: the three strategies, each a loop over locations,    *)
(* days and time slots on a schedule and a tracker of its own, and the     *)
(* runs the claims compare.                                                *)
(***************************************************************************)
\* the records of the small inputs
MaxEORecords == 2

RevenueRec(f, l, d, t, who, n, revenue) ==
  [cleanedClass |-> f, location |-> l, dayOfWeek |-> d, classTime |-> t,
   teacherName |-> who, participants |-> n, totalRevenue |-> revenue]

\* records of the six seed instructors, two of them in one location and day
EOPool ==
  <<RevenueRec("Studio FIT", KW, "Monday", HM(8, 0), <<"Anisha", "Shah">>, 10, 5000),
    RevenueRec("Studio Hosted Class", KW, "Saturday", HM(10, 15), <<"Karanvir", "Bhatia">>, 25, 12000),
    RevenueRec("Studio Barre 57", KE, "Thursday", HM(17, 0), <<"Rohan", "Dahima">>, 9, 4000),
    RevenueRec("Studio Barre 57 (Express)", SU, "Thursday", HM(9, 0), <<"Pranjali", "Jain">>, 8, 3000),
    RevenueRec("Studio powerCycle", SU, "Sunday", HM(10, 0), <<"Cauveri", "Vikrant">>, 8, 9000),
    RevenueRec("Studio HIIT", KW, "Friday", HM(9, 30), <<"Atulan", "Purohit">>, 12, 7000),
    RevenueRec("Studio Mat 57", KW, "Monday", HM(8, 30), <<"Anisha", "Shah">>, 8, 9000)>>

\* a week of one instructor: three days of a 45-minute format, then a day
\* of a one-hour format
EOLongWeek ==
  <<RevenueRec("Studio Barre 57 (Express)", KW, "Monday", HM(8, 0), <<"Rohan", "Dahima">>, 9, 4000),
    RevenueRec("Studio Barre 57 (Express)", KW, "Tuesday", HM(8, 0), <<"Rohan", "Dahima">>, 9, 4000),
    RevenueRec("Studio Barre 57 (Express)", KW, "Wednesday", HM(8, 0), <<"Rohan", "Dahima">>, 9, 4000),
    RevenueRec("Studio Barre 57", KW, "Thursday", HM(8, 0), <<"Rohan", "Dahima">>, 9, 4000)>>

\* six days of a 30-minute format with two instructors, the first the
\* better attended
EOSixDays ==
  <<RevenueRec("Studio Recovery", KW, "Tuesday", HM(9, 0), <<"Rohan", "Dahima">>, 10, 4000),
    RevenueRec("Studio Recovery", KW, "Wednesday", HM(9, 0), <<"Pranjali", "Jain">>, 8, 3000),
    RevenueRec("Studio Recovery", KW, "Thursday", HM(9, 0), <<"Pranjali", "Jain">>, 8, 3000),
    RevenueRec("Studio Recovery", KW, "Friday", HM(9, 0), <<"Pranjali", "Jain">>, 8, 3000),
    RevenueRec("Studio Recovery", KW, "Saturday", HM(9, 0), <<"Pranjali", "Jain">>, 8, 3000),
    RevenueRec("Studio Recovery", KW, "Sunday", HM(9, 0), <<"Pranjali", "Jain">>, 8, 3000)>>

\* an instructor whose name is one word, at two locations on one day
EOOneWord ==
  <<RevenueRec("Studio Barre 57", KW, "Sunday", HM(10, 0), <<"Simonelle">>, 9, 4000),
    RevenueRec("Studio Barre 57", SU, "Sunday", HM(10, 0), <<"Simonelle">>, 9, 4000)>>

\* an inactive instructor with a well attended class, and an active one
EOInactive ==
  <<RevenueRec("Studio FIT", KW, "Monday", HM(8, 0), <<"Nishanth", "Raj">>, 10, 5000),
    RevenueRec("Studio Mat 57", KW, "Monday", HM(8, 30), <<"Anisha", "Shah">>, 8, 9000)>>

EORecordSets ==
  {EOPool, EOLongWeek, EOSixDays, EOOneWord, EOInactive} \cup
  {Pick(EOPool, S) : S \in {T \in SUBSET (DOMAIN EOPool) : Cardinality(T) <= MaxEORecords}}

\* the ids of the three iterations, in the order generateOptimizedSchedules runs them
Strategies == <<"revenue-maximizer", "attendance-maximizer", "balanced-schedule">>

\* generateFlexibleTimeSlots: the base and the flexible slots, sorted
generateFlexibleTimeSlots ==
  [k \in 1..19 |-> HM(7, 15) + 15 * (k - 1)] \o [k \in 1..12 |-> HM(17, 15) + 15 * (k - 1)]

\* EnhancedOptimizer.isPeakHour: membership in PEAK_HOURS
EnhancedIsPeakHour(time) ==
  /\ time % 30 = 0
  /\ \/ time >= HM(7, 0) /\ time <= HM(11, 30)
     \/ time >= HM(17, 30) /\ time <= HM(20, 0)

getMaxParallelClasses(location) == IF location = SU THEN 3 ELSE 2

DAY_GUIDELINES(day) ==
  CASE day = "Monday" ->
         [avoid |-> {"Studio Recovery"},
          priority |-> {"Studio Barre 57", "Studio FIT", "Studio powerCycle", "Studio Mat 57"},
          maxClasses |-> 12]
    [] day = "Tuesday" ->
         [avoid |-> {"Studio HIIT", "Studio Amped Up!"},
          priority |-> {"Studio Barre 57", "Studio Mat 57", "Studio Foundations", "Studio Cardio Barre"},
          maxClasses |-> 12]
    [] day = "Wednesday" ->
         [avoid |-> {},
          priority |-> {"Studio Barre 57", "Studio FIT", "Studio powerCycle", "Studio Mat 57"},
          maxClasses |-> 12]
    [] day = "Thursday" ->
         [avoid |-> {},
          priority |-> {"Studio Recovery", "Studio Mat 57", "Studio Cardio Barre", "Studio Back Body Blaze"},
          maxClasses |-> 10]
    [] day = "Friday" ->
         [avoid |-> {},
          priority |-> {"Studio HIIT", "Studio Amped Up!", "Studio FIT", "Studio Cardio Barre"},
          maxClasses |-> 12]
    [] day = "Saturday" ->
         [avoid |-> {"Studio HIIT"},
          priority |-> {"Studio Barre 57", "Studio Foundations", "Studio Recovery", "Studio Mat 57"},
          maxClasses |-> 10]
    [] OTHER ->
         [avoid |-> {"Studio HIIT", "Studio Amped Up!"},
          priority |-> {"Studio Barre 57", "Studio Recovery", "Studio Mat 57"},
          maxClasses |-> 5]

\* the positions of the records findBest...Class filters out of csvData
EnhancedRelevantData(csv, location, day) ==
  {i \in DOMAIN csv :
     /\ csv[i].location = location
     /\ csv[i].dayOfWeek = day
     /\ csv[i].participants > 5
     /\ csv[i].cleanedClass \notin DAY_GUIDELINES(day).avoid
     /\ isClassAllowedAtLocation(csv[i].cleanedClass, location)}

RECURSIVE SumRevenue(_, _)
SumRevenue(csv, S) ==
  IF S = {} THEN 0
  ELSE LET i == CHOOSE j \in S : TRUE
       IN  csv[i].totalRevenue + SumRevenue(csv, S \ {i})

\* groupClassesByFormat on the records at the positions S: one entry per
\* format, in order of first occurrence
groupClassesByFormat(csv, S) ==
  LET first == Ascending({i \in S : \A j \in S : j < i => csv[j].cleanedClass # csv[i].cleanedClass})
  IN  [k \in DOMAIN first |->
         LET members == {i \in S : csv[i].cleanedClass = csv[first[k]].cleanedClass}
         IN  [classFormat |-> csv[first[k]].cleanedClass,
              participants |-> SumParticipants(csv, members),
              revenue |-> SumRevenue(csv, members),
              count |-> Cardinality(members)]]

\* the comparator of the strategy's sort is negative: a goes before b;
\* balanceScore is (avgRevenue / 10000) * 0.4 + (avgParticipants / 20) * 0.6
BestBefore(strategy, priority, a, b) ==
  LET aPriority == a.classFormat \in priority
      bPriority == b.classFormat \in priority
      score(c) == IF strategy = "revenue-maximizer" THEN c.revenue
                  ELSE IF strategy = "attendance-maximizer" THEN c.participants
                  ELSE 4 * c.revenue + 3000 * c.participants
  IN  IF aPriority /\ ~bPriority THEN TRUE
      ELSE IF ~aPriority /\ bPriority THEN FALSE
      ELSE AvgGreater(score(a), a.count, score(b), b.count)

\* findBestRevenueClass, findBestAttendanceClass and findBestBalancedClass:
\* <<>> for null, else <<availableClasses[0]>>
findBestClass(strategy, csv, location, day, time, existingSchedule) ==
  LET relevant == EnhancedRelevantData(csv, location, day)
      classStats == groupClassesByFormat(csv, relevant)
      existingFormats == {existingSchedule[i].classFormat :
                            i \in {j \in DOMAIN existingSchedule :
                                     /\ existingSchedule[j].location = location
                                     /\ existingSchedule[j].day = day
                                     /\ existingSchedule[j].time = time}}
      keep == Ascending({k \in DOMAIN classStats : classStats[k].classFormat \notin existingFormats})
      availableClasses == [k \in DOMAIN keep |-> classStats[keep[k]]]
      Before(a, b) == BestBefore(strategy, DAY_GUIDELINES(day).priority, a, b)
  IN  IF relevant = {} \/ keep = <<>> THEN <<>>
      ELSE <<StableSort(availableClasses, Before)[1]>>

EnhancedShift(time) == IF HourOf(time) < 14 THEN "morning" ELSE "evening"

\* getTrainersInShift: the instructors of the classes of the shift's hours
getTrainersInShift(sched, location, day, time) ==
  LET shiftStart == IF EnhancedShift(time) = "morning" THEN 7 ELSE 17
      shiftEnd == IF EnhancedShift(time) = "morning" THEN 14 ELSE 22
  IN  {FullName(sched[i]) :
         i \in {j \in DOMAIN sched :
                  /\ sched[j].location = location
                  /\ sched[j].day = day
                  /\ HourOf(sched[j].time) >= shiftStart
                  /\ HourOf(sched[j].time) < shiftEnd}}

\* getConsecutiveClasses: the instructor's classes of the day within 90 minutes
getConsecutiveClasses(teacher, day, time, sched) ==
  Cardinality({i \in DOMAIN sched :
                 /\ FullName(sched[i]) = teacher
                 /\ sched[i].day = day
                 /\ Abs(time - sched[i].time) <= 90})

\* EnhancedOptimizer.canAssignTeacher; an instructor the tracker does not
\* hold counts as having no hours
EnhancedCanAssignTeacher(teacher, day, time, classFormat, tracking, sched) ==
  LET weeklyHours == IF teacher \in DOMAIN tracking THEN tracking[teacher].totalHours ELSE 0
      dailyHours == IF teacher \in DOMAIN tracking THEN tracking[teacher].dailyHours[day] ELSE 0
  IN  /\ isNewTrainer(teacher) => classFormat \in newTrainerAllowedFormats
      /\ classFormat \in advancedFormats => isSeniorTrainer(teacher)
      /\ weeklyHours < (IF isNewTrainer(teacher) THEN 10 * Unit ELSE 15 * Unit)
      /\ dailyHours < 4 * Unit
      /\ getConsecutiveClasses(teacher, day, time, sched) < 2

\* assignOptimalTeacher: the best ranked instructor who can be assigned,
\* else the first of allTeachers who can, else NoTeacher
assignOptimalTeacher(csv, classFormat, day, time, tracking, sched) ==
  LET experienced == {i \in DOMAIN csv : csv[i].cleanedClass = classFormat /\ csv[i].participants > 5}
      first == Ascending({i \in experienced :
                            \A j \in experienced : j < i => csv[j].teacherName # csv[i].teacherName})
      stats == [k \in DOMAIN first |->
                  LET of == {i \in experienced : csv[i].teacherName = csv[first[k]].teacherName}
                  IN  [teacher |-> csv[first[k]].teacherName,
                       participants |-> SumParticipants(csv, of),
                       count |-> Cardinality(of)]]
      Before(a, b) == AvgGreater(a.participants, a.count, b.participants, b.count)
      rankedTeachers == StableSort(stats, Before)
      candidates == [k \in DOMAIN rankedTeachers |-> rankedTeachers[k].teacher] \o AllTeachersOf(csv)
      able == {k \in DOMAIN candidates :
                 EnhancedCanAssignTeacher(candidates[k], day, time, classFormat, tracking, sched)}
  IN  IF able = {} THEN NoTeacher ELSE candidates[Ascending(able)[1]]

validateTrainerAssignment(teacher, day, time, location, tracking, sched) ==
  LET dayAssignments == Ascending({i \in DOMAIN sched :
                                     FullName(sched[i]) = teacher /\ sched[i].day = day})
      trainerShifts == IF teacher \in DOMAIN tracking THEN tracking[teacher].shifts[day] ELSE {}
      trainersInShift == getTrainersInShift(sched, location, day, time)
      maxTrainersPerShift == IF day = "Sunday" THEN 1 ELSE 3
  IN  /\ dayAssignments # <<>> => sched[dayAssignments[1]].location = location
      /\ trainerShifts # {} => EnhancedShift(time) \in trainerShifts
      /\ ~(teacher \notin trainersInShift /\ Cardinality(trainersInShift) >= maxTrainersPerShift)

updateTrainerTracking(teacher, day, time, tracking, duration) ==
  IF teacher \notin DOMAIN tracking THEN tracking
  ELSE [tracking EXCEPT
          ![teacher].totalHours = @ + duration,
          ![teacher].dailyHours[day] = @ + duration,
          ![teacher].shifts[day] = @ \cup {EnhancedShift(time)}]

\* createScheduledClass; revenue and isTopPerformer, like participants
\* functions of bestClass alone, are left out
createScheduledClass(bestClass, teacher, day, time, location, id) ==
  [id |-> id, day |-> day, time |-> time, location |-> location,
   classFormat |-> bestClass.classFormat,
   teacherFirstName |-> FirstNameOf(teacher), teacherLastName |-> LastNameOf(teacher),
   duration |-> getClassDuration(bestClass.classFormat),
   participants |-> RoundAvg(bestClass.participants, bestClass.count)]

\* initializeTrainerTracking that hands out the tracker of the run before
initializeTrainerTracking_Reused ==
  IF trainerTracking # <<>> THEN trainerTracking
  ELSE [t \in Range(AllTeachersOf(csvData)) |->
          [totalHours |-> 0, dailyHours |-> [d \in Range(AllDays) |-> 0],
           shifts |-> [d \in Range(AllDays) |-> {}]]]

initializeTrainerTracking ==
  [t \in Range(AllTeachersOf(csvData)) |->
     [totalHours |-> 0, dailyHours |-> [d \in Range(AllDays) |-> 0],
      shifts |-> [d \in Range(AllDays) |-> {}]]]

\* the locals of a strategy, as one value its loops transform
Locals == [schedule |-> schedule, tracking |-> trainerTracking, count |-> classesScheduled]

\* one pass of a strategy's innermost loop body: the best class, its
\* instructor, and the class pushed when the instructor passes
TryClass(e, strategy, location, day, time, validate) ==
  LET best == findBestClass(strategy, csvData, location, day, time, e.schedule)
      teacher == assignOptimalTeacher(csvData, best[1].classFormat, day, time, e.tracking, e.schedule)
      scheduledClass == createScheduledClass(best[1], teacher, day, time, location, Len(e.schedule) + 1)
  IN  IF best = <<>> THEN e
      ELSE IF teacher = NoTeacher THEN e
      ELSE IF validate /\ ~validateTrainerAssignment(teacher, day, time, location, e.tracking, e.schedule)
      THEN e
      ELSE [schedule |-> Append(e.schedule, scheduledClass),
            tracking |-> updateTrainerTracking(teacher, day, time, e.tracking, scheduledClass.duration),
            count |-> e.count + 1]

\* for (let i = 0; i < n; i++), with the revenue strategy's second
\* condition classesScheduled < maxClasses
RECURSIVE TryClasses(_, _, _, _, _, _)
TryClasses(e, n, strategy, location, day, time) ==
  IF n = 0 THEN e
  ELSE LET before == TryClasses(e, n - 1, strategy, location, day, time)
       IN  IF strategy = "revenue-maximizer" /\ before.count >= DAY_GUIDELINES(day).maxClasses
           THEN before
           ELSE TryClass(before, strategy, location, day, time, TRUE)

isKwalityWeekday(location, day) == location = KW /\ day \notin {"Saturday", "Sunday"}

\* TimeSlot that neither stops at maxClasses nor limits the passes to the
\* classes the day can still take
TimeSlot_Uncapped(e, strategy, location, day, time) ==
  LET parallel == getMaxParallelClasses(location)
      toSchedule ==
        IF strategy = "revenue-maximizer"
        THEN (IF EnhancedIsPeakHour(time) THEN parallel ELSE Min2(2, parallel))
        ELSE parallel
      skipped ==
        /\ strategy = "balanced-schedule"
        /\ \/ time = HM(7, 30) /\ isKwalityWeekday(location, day)
           \/ Cardinality(getTrainersInShift(e.schedule, location, day, time))
                >= (IF day = "Sunday" THEN 1 ELSE 3)
  IN  IF skipped THEN e
      ELSE TryClasses(e, toSchedule, strategy, location, day, time)

\* the body of for (const time of timeSlots) for one time
TimeSlot(e, strategy, location, day, time) ==
  LET maxClasses == DAY_GUIDELINES(day).maxClasses
      parallel == getMaxParallelClasses(location)
      toSchedule ==
        IF strategy = "revenue-maximizer"
        THEN (IF EnhancedIsPeakHour(time) THEN parallel ELSE Min2(2, parallel))
        ELSE Min2(parallel, maxClasses - e.count)
      skipped ==
        /\ strategy = "balanced-schedule"
        /\ \/ time = HM(7, 30) /\ isKwalityWeekday(location, day)
           \/ Cardinality(getTrainersInShift(e.schedule, location, day, time))
                >= (IF day = "Sunday" THEN 1 ELSE 3)
  IN  IF e.count >= maxClasses \/ skipped THEN e
      ELSE TryClasses(e, toSchedule, strategy, location, day, time)

\* the locals when the loop over the day's time slots starts: no class
\* counted yet and, in the balanced strategy, the 07:30 class of a Kwality
\* House weekday, which validateTrainerAssignment is not asked about
DayStart(e, strategy, location, day) ==
  LET fresh == [e EXCEPT !.count = 0]
  IN  IF strategy = "balanced-schedule" /\ isKwalityWeekday(location, day)
      THEN TryClass(fresh, strategy, location, day, HM(7, 30), FALSE)
      ELSE fresh

\* the history of the runs made so far
RunsOf(id) == {i \in DOMAIN iterations : iterations[i].id = id}

NoRunUnderWay == eoPlan = <<>> /\ pc = "idle"

\* one strategy is run by itself, before any other run of the optimizer
RunStrategyAlone ==
  /\ NoRunUnderWay
  /\ \A k \in DOMAIN Strategies : RunsOf(Strategies[k]) = {}
  /\ \E k \in DOMAIN Strategies : eoPlan' = <<Strategies[k]>>
  /\ UNCHANGED <<eoCursor, schedule, trainerTracking, classesScheduled, iterations>>
  /\ UNCHANGED <<schedulerVars, aiVars, appVars, topVars, uiVars>>

\* generateOptimizedSchedules: the three strategies one after the other
generateOptimizedSchedules ==
  /\ NoRunUnderWay
  /\ \A k \in DOMAIN Strategies : Cardinality(RunsOf(Strategies[k])) <= 1
  /\ Cardinality(UNION {RunsOf(Strategies[k]) : k \in DOMAIN Strategies}) <= 1
  /\ eoPlan' = Strategies
  /\ UNCHANGED <<eoCursor, schedule, trainerTracking, classesScheduled, iterations>>
  /\ UNCHANGED <<schedulerVars, aiVars, appVars, topVars, uiVars>>

\* a strategy is entered: const schedule = [] and
\* const trainerTracking = this.initializeTrainerTracking()
StrategyStarts ==
  /\ eoPlan # <<>>
  /\ eoCursor = <<>>
  /\ schedule' = <<>>
  /\ trainerTracking' = initializeTrainerTracking
  /\ classesScheduled' = 0
  /\ eoCursor' = <<1, 1, 1>>
  /\ UNCHANGED <<eoPlan, iterations>>
  /\ UNCHANGED <<schedulerVars, aiVars, appVars, topVars, uiVars>>

\* the loops of the running strategy advance by one time slot, or by a
\* whole day when no record is relevant to the location and the day and
\* every pass of the day's loops finds no class
StrategyStep ==
  /\ eoPlan # <<>>
  /\ eoCursor # <<>>
  /\ eoCursor[1] <= Len(locations)
  /\ LET strategy == eoPlan[1]
         location == locations[eoCursor[1]]
         day == AllDays[eoCursor[2]]
         slot == eoCursor[3]
         nextDay == IF eoCursor[2] < Len(AllDays) THEN <<eoCursor[1], eoCursor[2] + 1, 1>>
                    ELSE <<eoCursor[1] + 1, 1, 1>>
         atStart == IF slot = 1 THEN DayStart(Locals, strategy, location, day) ELSE Locals
         after == TimeSlot(atStart, strategy, location, day, generateFlexibleTimeSlots[slot])
     IN  IF EnhancedRelevantData(csvData, location, day) = {}
         THEN /\ eoCursor' = nextDay
              /\ classesScheduled' = 0
              /\ UNCHANGED <<schedule, trainerTracking>>
         ELSE /\ schedule' = after.schedule
              /\ trainerTracking' = after.tracking
              /\ classesScheduled' = after.count
              /\ eoCursor' = IF slot < Len(generateFlexibleTimeSlots)
                             THEN <<eoCursor[1], eoCursor[2], slot + 1>>
                             ELSE nextDay
  /\ UNCHANGED <<eoPlan, iterations>>
  /\ UNCHANGED <<schedulerVars, aiVars, appVars, topVars, uiVars>>

\* the running strategy returns its iteration
StrategyReturns ==
  /\ eoPlan # <<>>
  /\ eoCursor # <<>>
  /\ eoCursor[1] > Len(locations)
  /\ iterations' = Append(iterations, [id |-> eoPlan[1], schedule |-> schedule])
  /\ eoPlan' = Tail(eoPlan)
  /\ eoCursor' = <<>>
  /\ UNCHANGED <<schedule, trainerTracking, classesScheduled>>
  /\ UNCHANGED <<schedulerVars, aiVars, appVars, topVars, uiVars>>

\* generateIntelligentSchedule is called on the records, with no targetDay
\* and, each time, the same options
RunIntelligentSchedule ==
  /\ NoRunUnderWay
  /\ Cardinality(RunsOf("generateIntelligentSchedule")) < 2
  /\ generateIntelligentSchedule
  /\ UNCHANGED <<aiVars, appVars, toolVars>>

\* its promise resolves with the schedule
IntelligentScheduleReturns ==
  /\ pc = "done"
  /\ iterations' = Append(iterations, [id |-> "generateIntelligentSchedule",
                                       schedule |-> optimizedClasses])
  /\ pc' = "idle"
  /\ UNCHANGED <<csvData, targetDay, optimizedClasses, teacherHoursTracker, teacherDailyHours,
                 teacherShiftAssignments, placed, cursor>>
  /\ UNCHANGED <<eoPlan, eoCursor, schedule, trainerTracking, classesScheduled>>
  /\ UNCHANGED <<aiVars, appVars, topVars, uiVars>>

InitRuns ==
  /\ csvData \in EORecordSets
  /\ targetDay = ""
  /\ optimizedClasses = <<>>
  /\ teacherHoursTracker = <<>>
  /\ teacherDailyHours = <<>>
  /\ teacherShiftAssignments = <<>>
  /\ placed = <<>>
  /\ pc = "idle"
  /\ cursor = <<>>
  /\ AIServiceIdle
  /\ AppIdle
  /\ ToolsIdle

NextRuns ==
  \/ RunStrategyAlone
  \/ generateOptimizedSchedules
  \/ StrategyStarts
  \/ StrategyStep
  \/ StrategyReturns
  \/ RunIntelligentSchedule
  \/ IntelligentScheduleReturns
  \/ Phase0Step
  \/ Phase1Step
  \/ Phase2Step
  \/ Phase3Step
  \/ Phase4Step
  \/ Phase5Step

SpecRuns == InitRuns /\ [][NextRuns]_vars



(***************************************************************************)
(* Claims.                                                                 *)
(***************************************************************************)

\* C1: in the returned schedule every instructor's summed class durations
\* are at most 15 hours, and at most 10 hours for a new-tier instructor
\* (name contains 'Kabir' or 'Simonelle'), Phase 4 reassignments included.
C1_WeeklyCap ==
  Returned =>
    \A name \in InstructorsOf(optimizedClasses) :
      WeeklyHoursOf(optimizedClasses, name) <=
        (IF NameIncludes(name, "Kabir") \/ NameIncludes(name, "Simonelle")
         THEN 10 * Unit ELSE 15 * Unit)

\* a returned schedule in which Phase 4 reassigned a class, one instructor
\* holds exactly 15 hours and a new-tier instructor exactly 10
C1_Witness ==
  /\ Returned
  /\ \E i \in DOMAIN optimizedClasses : Reassigned(i)
  /\ \E name \in InstructorsOf(optimizedClasses) :
       ~isNewTrainer(name) /\ WeeklyHoursOf(optimizedClasses, name) = 15 * Unit
  /\ \E name \in InstructorsOf(optimizedClasses) :
       isNewTrainer(name) /\ WeeklyHoursOf(optimizedClasses, name) = 10 * Unit

\* C2: in the returned schedule, for every instructor and every day the
\* summed durations of the instructor's classes on that day are at most 4
\* hours.
C2_DailyCap ==
  Returned =>
    \A name \in InstructorsOf(optimizedClasses) :
      \A d \in Range(AllDays) :
        DailyHoursOf(optimizedClasses, name, d) <= 4 * Unit

\* a returned schedule in which an instructor teaches exactly 4 hours on a
\* day, one of the classes having come to that instructor in Phase 4
C2_Witness ==
  /\ Returned
  /\ \E i \in DOMAIN optimizedClasses :
       /\ Reassigned(i)
       /\ DailyHoursOf(optimizedClasses, FullName(optimizedClasses[i]),
                       optimizedClasses[i].day) = 4 * Unit

\* C3: in the returned schedule every instructor has classes on at most 5
\* distinct days, and canAssignTeacher refuses a class on a new day to an
\* instructor whose tracker shows 5 working days, whatever hours remain.
C3_TwoDaysOff ==
  /\ Returned =>
       \A name \in InstructorsOf(optimizedClasses) :
         Cardinality(WorkingDaysOf(optimizedClasses, name)) <= 5
  /\ \A t \in DOMAIN teacherDailyHours :
       \A d \in DOMAIN teacherDailyHours[t] :
         (/\ Cardinality({e \in DOMAIN teacherDailyHours[t] : teacherDailyHours[t][e] > 0}) >= 5
          /\ teacherDailyHours[t][d] = 0)
         => \A f \in {csvData[i].cleanedClass : i \in DOMAIN csvData} :
              ~canAssignTeacher(Machine, t, d, HM(7, 30), getClassDuration(f), f)

\* a returned schedule in which an instructor works exactly 5 days and has
\* fewer hours than the weekly cap
C3_Witness ==
  /\ Returned
  /\ \E name \in InstructorsOf(optimizedClasses) :
       /\ Cardinality(WorkingDaysOf(optimizedClasses, name)) = 5
       /\ ~isNewTrainer(name)
       /\ WeeklyHoursOf(optimizedClasses, name) + Unit <= 15 * Unit

\* C4: after every phase each (location, day, time) cell holds at most 2
\* classes (3 at 'Supreme HQ, Bandra') and no two classes of a cell have
\* the same class format, also after Phase 5 moved classes.
C4_CellCapacity ==
  \A i \in DOMAIN optimizedClasses :
    LET c == optimizedClasses[i]
        cell == ClassesIn(optimizedClasses, c.location, c.day, c.time)
    IN  /\ Cardinality(cell) <= (IF c.location = "Supreme HQ, Bandra" THEN 3 ELSE 2)
        /\ \A j \in cell : j # i => optimizedClasses[j].classFormat # c.classFormat

\* a returned schedule with a full cell at Supreme HQ (3 classes), a full
\* cell elsewhere (2 classes), and a class that Phase 5 moved into a cell
\* that holds another class
C4_Witness ==
  /\ Returned
  /\ \E i \in DOMAIN optimizedClasses :
       LET c == optimizedClasses[i]
       IN  c.location = SU /\ Cardinality(ClassesIn(optimizedClasses, SU, c.day, c.time)) = 3
  /\ \E i \in DOMAIN optimizedClasses :
       LET c == optimizedClasses[i]
       IN  c.location # SU
           /\ Cardinality(ClassesIn(optimizedClasses, c.location, c.day, c.time)) = 2
  /\ \E i \in DOMAIN optimizedClasses :
       LET c == optimizedClasses[i]
       IN  Moved(i) /\ Cardinality(ClassesIn(optimizedClasses, c.location, c.day, c.time)) >= 2

\* C5: in the returned schedule no instructor has classes at two different
\* locations on the same day.
C5_OneLocationPerDay ==
  Returned =>
    \A i, j \in DOMAIN optimizedClasses :
      (/\ FullName(optimizedClasses[i]) = FullName(optimizedClasses[j])
       /\ optimizedClasses[i].day = optimizedClasses[j].day)
      => optimizedClasses[i].location = optimizedClasses[j].location

\* C6: the run never throws, whatever the records are (the empty set and
\* sets without the instructors of the locked seed list included).
C6_NeverThrows == pc # "thrown"

\* C7: every class Phase 0 seeded is in the returned schedule with the day,
\* time, location, class format and instructor it was seeded with.
C7_SeedsKept ==
  Returned =>
    \A i \in DOMAIN placed :
      placed[i].phase = "phase0" =>
        /\ optimizedClasses[i].day = placed[i].class.day
        /\ optimizedClasses[i].time = placed[i].class.time
        /\ optimizedClasses[i].location = placed[i].class.location
        /\ optimizedClasses[i].classFormat = placed[i].class.classFormat
        /\ FullName(optimizedClasses[i]) = FullName(placed[i].class)

\* C8: every class of the returned schedule is allowed at its location: at
\* 'Supreme HQ, Bandra' the format contains neither 'amped up' nor 'hiit',
\* elsewhere neither 'powercycle' nor 'power cycle'; and so is every class
\* at the moment a phase places it.
C8_LocationRule ==
  \A i \in DOMAIN optimizedClasses :
    LET c == optimizedClasses[i]
    IN  /\ isClassAllowedAtLocation(c.classFormat, c.location)
        /\ IF c.location = "Supreme HQ, Bandra"
           THEN ~LowerIncludes(c.classFormat, "amped up") /\ ~LowerIncludes(c.classFormat, "hiit")
           ELSE ~LowerIncludes(c.classFormat, "powercycle")
                /\ ~LowerIncludes(c.classFormat, "power cycle")

\* a returned schedule in which Phase 2 placed a PowerCycle class (at
\* Supreme HQ) and a HIIT class (elsewhere)
C8_Witness ==
  /\ Returned
  /\ \E i \in DOMAIN optimizedClasses :
       /\ placed[i].phase = "phase2"
       /\ LowerIncludes(optimizedClasses[i].classFormat, "powercycle")
  /\ \E i \in DOMAIN optimizedClasses :
       /\ placed[i].phase = "phase2"
       /\ LowerIncludes(optimizedClasses[i].classFormat, "hiit")

\* C9: no class of the schedule pairs a new-tier instructor with a format
\* outside the five-format allow-list, nor an advanced format with a
\* non-senior instructor, Phase 4 reassignments included; canAssignTeacher
\* rejects such a pair whatever hours the instructor has left.
TierEligible(name, classFormat) ==
  /\ (NameIncludes(name, "Kabir") \/ NameIncludes(name, "Simonelle"))
       => classFormat \in {"Studio Barre 57", "Studio Barre 57 (Express)", "Studio powerCycle",
                           "Studio powerCycle (Express)", "Studio Cardio Barre"}
  /\ classFormat \in {"Studio HIIT", "Studio Amped Up!"}
       => \E k \in DOMAIN seniorTrainers : NameIncludes(name, seniorTrainers[k])

C9_TierRule ==
  /\ \A i \in DOMAIN optimizedClasses :
       TierEligible(FullName(optimizedClasses[i]), optimizedClasses[i].classFormat)
  /\ \A t \in DOMAIN teacherDailyHours :
       \A f \in {csvData[i].cleanedClass : i \in DOMAIN csvData} :
         ~TierEligible(t, f) =>
           \A d \in DOMAIN teacherDailyHours[t] :
             ~canAssignTeacher(Machine, t, d, HM(7, 30), getClassDuration(f), f)

\* a returned schedule in which Phase 4 gave a class to a new-tier
\* instructor, with an advanced class in it, from records in which a
\* new-tier instructor taught a format outside the allow-list
C9_Witness ==
  /\ Returned
  /\ \E i \in DOMAIN optimizedClasses :
       Reassigned(i) /\ isNewTrainer(FullName(optimizedClasses[i]))
  /\ \E i \in DOMAIN optimizedClasses : optimizedClasses[i].classFormat \in advancedFormats
  /\ \E i \in DOMAIN csvData :
       isNewTrainer(csvData[i].teacherName)
       /\ csvData[i].cleanedClass \notin newTrainerAllowedFormats

\* C10: no class of the schedule is at a restricted time: every class c
\* satisfies NOT isTimeRestricted(c.time, c.day, c.isPrivate), where
\* isTimeRestricted holds exactly of the non-private times in
\* [12:00, 17:00); also after Phase 5 moved classes.
C10_NoRestrictedTime ==
  \A i \in DOMAIN optimizedClasses :
    LET c == optimizedClasses[i]
    IN  /\ ~isTimeRestricted(c.time, c.day, c.isPrivate)
        /\ \A private \in BOOLEAN :
             isTimeRestricted(c.time, c.day, private)
               <=> (~private /\ c.time >= HM(12, 0) /\ c.time < HM(17, 0))

\* a returned schedule in which Phase 5 moved a class to 17:00 and another
\* class is at 11:30, the two ends of the restricted band
C10_Witness ==
  /\ Returned
  /\ \E i \in DOMAIN optimizedClasses : Moved(i) /\ optimizedClasses[i].time = HM(17, 0)
  /\ \E i \in DOMAIN optimizedClasses : optimizedClasses[i].time = HM(11, 30)


\* C11: the returned schedule has at most five classes on Sunday, counting
\* the classes of all the phases.  Phase 1 alone stops at five (line 1164);
\* Phases 2 and 3 place classes on Sunday without counting them.
C11_SundayCap ==
  Returned => ClassesOnDay(optimizedClasses, "Sunday") <= SundayMaxClasses


\* C12: when a provider with a non-blank key is configured and the external
\* call for recommendations fails (network error, non-2xx status,
\* unsupported provider, or an answer that is empty or not valid JSON), the
\* call resolves with exactly the list of the local fallback computation.
\* parseAIResponse catches the JSON error itself and returns [], which
\* generateRecommendations passes on.
C12_FailureFallsBack ==
  (/\ query.kind = "recommendations"
   /\ external \in {"unsupported", "networkError", "httpError", "badBody", "badContent"})
    => /\ aiPc = "resolved"
       /\ aiResult = getFallbackRecommendations(csvData, query.location, query.day, query.time)

\* C13: a call whose external request is pending eventually completes, even
\* when the external call never produces a response.
C13_EventuallyCompletes == (aiPc = "fetching") ~> AISettled

\* C14: generateRecommendations resolves with at most five recommendations
\* in order of non-increasing priority, from the local computation and from
\* the provider's answer alike.
C14_AtMostFiveSorted ==
  (aiPc = "resolved" /\ query.kind = "recommendations")
    => /\ Len(aiResult) <= MaxRecommendations
       /\ \A i, j \in DOMAIN aiResult : i < j => aiResult[i].priority >= aiResult[j].priority

\* C15: when the cell of the query has records, the top recommendation of
\* the local ranking is a format with the highest average attendance within
\* that cell.
C15_CellFirst ==
  LET cell == relevantData(csvData, query.location, query.day, query.time)
      ranked == analyzeClassPerformance(cell)
  IN  (/\ aiPc = "resolved"
       /\ query.kind = "recommendations"
       /\ external \notin {"answered", "badContent"}
       /\ Len(cell) > 0)
        => /\ aiResult # <<>>
           /\ \E k \in DOMAIN ranked :
                /\ ranked[k].classFormat = aiResult[1].classFormat
                /\ ~AvgGreater(ranked[1].participants, ranked[1].frequency,
                               ranked[k].participants, ranked[k].frequency)

(***************************************************************************)
(* The App's handlers.                                                     *)
(***************************************************************************)
\* the classes validateTeacherHours is asked about
CandidateClasses ==
  {ScheduledClass(0, "Studio Barre 57", KW, "Saturday", HM(9, 0), who, duration) :
     who \in ModalTeachers, duration \in {10, 15, Unit, 30, 2 * Unit}}

WeeklyCapOf(name) == IF isNewTrainer(name) THEN MaxWeeklyUnitsNew ELSE MaxWeeklyUnits

\* C16: for the committed schedule and any class c, validateTeacherHours
\* answers isValid = false, with an error, exactly when the instructor's
\* summed durations plus c's duration exceed the cap (15 hours, 10 for the
\* new tier), and otherwise isValid = true with a warning exactly when the
\* new total is above the cap less 3 hours
C16_HoursVerdict ==
  \A c \in CandidateClasses :
    LET validation == validateTeacherHours(scheduledClasses, c)
        newTotal == WeeklyHoursOf(scheduledClasses, FullName(c)) + c.duration
        cap == WeeklyCapOf(FullName(c))
    IN  /\ validation.isValid <=> newTotal <= cap
        /\ validation.error <=> newTotal > cap
        /\ validation.warning <=> (newTotal <= cap /\ newTotal > cap - 3 * Unit)

\* an instructor at exactly the cap was refused one more class, and another
\* candidate falls in the warning zone
C16_Witness ==
  /\ outcome.kind = "manual"
  /\ ~outcome.committed
  /\ WeeklyHoursOf(scheduledClasses, FullName(outcome.class)) = WeeklyCapOf(FullName(outcome.class))
  /\ ~validateTeacherHours(scheduledClasses, outcome.class).isValid
  /\ \E c \in CandidateClasses : validateTeacherHours(scheduledClasses, c).warning

\* C17: a manual commit through handleClassSchedule, adding a class or
\* replacing the edited one, leaves its instructor within the weekly cap and
\* with no more than five working days
C17_ManualCommitValidated ==
  [][(userActions' # userActions /\ outcome'.kind = "manual" /\ outcome'.committed)
       => LET name == FullName(outcome'.class)
          IN  /\ WeeklyHoursOf(scheduledClasses', name) <= WeeklyCapOf(name)
              /\ Cardinality(WorkingDaysOf(scheduledClasses', name)) <= MaxWorkingDays]_vars

\* C18: a generated schedule with an instructor above 15 hours is applied
\* all the same, with a warning, by handleAutoOptimize and by
\* handleOptimizedSchedule
C18_AppliedWithWarning ==
  [][(outcome' # outcome /\ outcome'.kind \in {"optimized", "auto"}
        /\ \E name \in InstructorsOf(outcome'.offered) :
             WeeklyHoursOf(outcome'.offered, name) > MaxWeeklyUnits)
       => (scheduledClasses' = outcome'.offered /\ outcome'.alert = "warning")]_vars

(***************************************************************************)
(* getTopPerformingClasses and the EnhancedOptimizer.                      *)
(***************************************************************************)
\* C19: whatever the records, none included, getTopPerformingClasses
\* returns the ten locked seeds first, in the order of the seed list, then
\* entries computed from the records, and no two entries of the list share
\* (format, location, day, time)
C19_SeedsFirstNoDuplicateCell ==
  topArgs # <<>> =>
    /\ Len(getDefaultTopClasses) = 10
    /\ Len(topClasses) >= 10
    /\ \A k \in 1..10 :
         /\ CellOf(topClasses[k]) = CellOf(getDefaultTopClasses[k])
         /\ topClasses[k].teacher = getDefaultTopClasses[k].teacher
    /\ \A k \in 11..Len(topClasses) :
         \E i \in DOMAIN csvData :
           /\ CellOf(topClasses[k]) = <<csvData[i].cleanedClass, csvData[i].location,
                                        csvData[i].dayOfWeek, csvData[i].classTime>>
           /\ topClasses[k].frequency >= 2
           /\ topClasses[k].avgParticipants >= topArgs[1].minAverage
    /\ \A j, k \in DOMAIN topClasses : j # k => CellOf(topClasses[j]) # CellOf(topClasses[k])

\* the records hold two groups of one cell, one per instructor, and two
\* records in the cell of a seed; one computed entry is returned
C19_Witness ==
  /\ topArgs # <<>>
  /\ topArgs[1].includeTeacher
  /\ Len(topClasses) = 11
  /\ Len(ComputedTopClasses(csvData, topArgs[1].minAverage, TRUE)) = 2
  /\ \E i \in DOMAIN csvData : csvData[i].classTime = HM(10, 15)

\* a schedule with the generated ids left out
WithoutIds(classes) ==
  [i \in DOMAIN classes |-> [f \in (DOMAIN classes[i]) \ {"id"} |-> classes[i][f]]]

\* C20: no tracker state crosses runs: whatever ran before on the same
\* records, a strategy of the EnhancedOptimizer returns the schedule it
\* returns when run alone, and a second generateIntelligentSchedule run
\* returns the schedule of the first, ids apart
C20_RunsIndependent ==
  \A i, j \in DOMAIN iterations :
    iterations[i].id = iterations[j].id
      => WithoutIds(iterations[i].schedule) = WithoutIds(iterations[j].schedule)

\* one strategy ran alone and then again after others inside
\* generateOptimizedSchedules, generateIntelligentSchedule ran twice, and
\* the schedules compared hold classes
C20_Witness ==
  /\ Len(iterations) = 6
  /\ iterations[1].id = "balanced-schedule"
  /\ iterations[4].id = "balanced-schedule"
  /\ iterations[4].schedule # <<>>
  /\ iterations[2].id = "revenue-maximizer"
  /\ iterations[2].schedule # iterations[3].schedule
  /\ Cardinality(RunsOf("generateIntelligentSchedule")) = 2
  /\ iterations[6].schedule # <<>>


(***************************************************************************)
(* The schedules of the EnhancedOptimizer's strategies.                    *)
(***************************************************************************)
\* the iterations the strategies returned
StrategyIterations == {i \in DOMAIN iterations : iterations[i].id \in Range(Strategies)}

\* C21: in every schedule a strategy of the EnhancedOptimizer returned, the
\* durations of an instructor's classes sum to at most 15 hours, and to at
\* most 10 hours for an instructor of the new tier.
C21_StrategyWeeklyCap ==
  \A i \in StrategyIterations : \A name \in InstructorsOf(iterations[i].schedule) :
    WeeklyHoursOf(iterations[i].schedule, name) <= WeeklyCapOf(name)

\* C22: in every schedule a strategy of the EnhancedOptimizer returned, an
\* instructor has classes on at most five distinct days.
C22_StrategyWorkingDays ==
  \A i \in StrategyIterations : \A name \in InstructorsOf(iterations[i].schedule) :
    Cardinality(WorkingDaysOf(iterations[i].schedule, name)) <= MaxWorkingDays


(***************************************************************************)
(* The frames of Phases 4 and 5.                                           *)
(***************************************************************************)
\* the class but for its time, and but for its instructor
LessTime(cls) == [cls EXCEPT !.time = 0]

LessInstructor(cls) == [cls EXCEPT !.teacherFirstName = "", !.teacherLastName = <<>>]

\* C23: a step of Phase 5 changes nothing of a class but its time (id, day,
\* location, format, instructor and duration stay), adds and removes no
\* class, and leaves the tracked weekly and daily hours as they were.
C23_Phase5OnlyTimes ==
  [][pc = "phase5" =>
       /\ Len(optimizedClasses') = Len(optimizedClasses)
       /\ \A i \in DOMAIN optimizedClasses :
            LessTime(optimizedClasses'[i]) = LessTime(optimizedClasses[i])
       /\ teacherHoursTracker' = teacherHoursTracker
       /\ teacherDailyHours' = teacherDailyHours]_vars

\* Phase 5 has moved a class, and the run has returned
C23_Witness ==
  /\ Returned
  /\ \E i \in DOMAIN optimizedClasses :
       /\ Moved(i)
       /\ LessTime(optimizedClasses[i]) = LessTime(placed[i].class)


\* what a step of Phase 4 sees and does, location and day being the step's
Phase4Location == locations[cursor[1]]

Phase4DayName == days[cursor[2]]

\* the classes a step gave another instructor
Handed == {i \in DOMAIN optimizedClasses :
             FullName(optimizedClasses'[i]) # FullName(optimizedClasses[i])}

\* the classes of the shift of class i, as the step found them
ShiftOf(i) ==
  {j \in DOMAIN optimizedClasses :
     /\ optimizedClasses[j].location = optimizedClasses[i].location
     /\ optimizedClasses[j].day = optimizedClasses[i].day
     /\ isMorningSlot(optimizedClasses[j].time) = isMorningSlot(optimizedClasses[i].time)
     /\ isEveningSlot(optimizedClasses[j].time) = isEveningSlot(optimizedClasses[i].time)}

ShiftCount(i, name) == Cardinality({j \in ShiftOf(i) : FullName(optimizedClasses[j]) = name})

ShiftInstructors(i) == {FullName(optimizedClasses[j]) : j \in ShiftOf(i)}

\* the durations the step handed to name, less those it took from name
RECURSIVE NetHanded(_, _)
NetHanded(S, name) ==
  IF S = {} THEN 0
  ELSE LET i == CHOOSE j \in S : TRUE
           gained == IF FullName(optimizedClasses'[i]) = name THEN optimizedClasses[i].duration ELSE 0
           lost == IF FullName(optimizedClasses[i]) = name THEN optimizedClasses[i].duration ELSE 0
       IN  gained - lost + NetHanded(S \ {i}, name)

RECURSIVE SumTracked(_, _)
SumTracked(th, S) ==
  IF S = {} THEN 0
  ELSE LET t == CHOOSE u \in S : TRUE IN th[t] + SumTracked(th, S \ {t})

\* C24: each class a step of Phase 4 hands over lies in a morning or evening
\* shift of the step's location and day that more than 2 instructors
\* served; its old instructor is outside the two with the most classes of
\* the shift and its new one is one of those two; the new instructor passes
\* what canAssignTeacher asks (tier, advanced formats, weekly and daily
\* cap); and the old instructor's tracked weekly and daily hours fall by
\* the duration while the new one's rise by it, the sum staying the same.
C24_Phase4Reassignments ==
  [][pc = "phase4" =>
       /\ \A i \in Handed :
            LET cls == optimizedClasses[i]
                old == FullName(cls)
                new == FullName(optimizedClasses'[i])
            IN  /\ cls.location = Phase4Location /\ cls.day = Phase4DayName
                /\ isMorningSlot(cls.time) \/ isEveningSlot(cls.time)
                /\ Cardinality(ShiftInstructors(i)) > MaxTeachersPerShift
                /\ new \in ShiftInstructors(i)
                /\ Cardinality({t \in ShiftInstructors(i) :
                                  ShiftCount(i, t) > ShiftCount(i, new)}) <= 1
                /\ Cardinality({t \in ShiftInstructors(i) \ {old} :
                                  ShiftCount(i, t) >= ShiftCount(i, old)}) >= 2
                /\ isNewTrainer(new) => cls.classFormat \in newTrainerAllowedFormats
                /\ cls.classFormat \in advancedFormats => isSeniorTrainer(new)
                /\ teacherHoursTracker'[new] <= WeeklyCapOf(new)
                /\ teacherDailyHours'[new][cls.day] <= MaxDailyUnits
       /\ pc' # "thrown" =>
            /\ \A t \in DOMAIN teacherHoursTracker :
                 /\ teacherHoursTracker'[t] = teacherHoursTracker[t] + NetHanded(Handed, t)
                 /\ \A d \in DOMAIN teacherDailyHours[t] :
                      teacherDailyHours'[t][d] =
                        teacherDailyHours[t][d] + (IF d = Phase4DayName THEN NetHanded(Handed, t) ELSE 0)
            /\ SumTracked(teacherHoursTracker', DOMAIN teacherHoursTracker)
                 = SumTracked(teacherHoursTracker, DOMAIN teacherHoursTracker)]_vars

\* Phase 4 has handed a class of a third instructor of a shift to one of
\* the shift's two busiest, and the trackers moved its duration with it
C24_Witness ==
  /\ pc = "phase5"
  /\ cursor = <<1, 1>>
  /\ \E i \in DOMAIN optimizedClasses :
       /\ Reassigned(i)
       /\ isMorningSlot(optimizedClasses[i].time) \/ isEveningSlot(optimizedClasses[i].time)
       /\ FullName(optimizedClasses[i]) \in DOMAIN teacherHoursTracker

\* the instructors of a shift of a location and a day in the schedule oc
ServingMorning(oc, location, day) ==
  {FullName(oc[i]) : i \in ShiftClasses(oc, location, day, isMorningSlot)}

ServingEvening(oc, location, day) ==
  {FullName(oc[i]) : i \in ShiftClasses(oc, location, day, isEveningSlot)}

\* C25: a step of Phase 4 never raises the number of distinct instructors
\* serving a morning or an evening of a location and a day, adds and removes
\* no class, and changes no class's day, time, location, format or duration.
C25_Phase4NeverSpreads ==
  [][pc = "phase4" =>
       /\ Len(optimizedClasses') = Len(optimizedClasses)
       /\ \A i \in DOMAIN optimizedClasses :
            LessInstructor(optimizedClasses'[i]) = LessInstructor(optimizedClasses[i])
       /\ \A k \in DOMAIN locations : \A d \in Range(AllDays) :
            /\ Cardinality(ServingMorning(optimizedClasses', locations[k], d))
                 <= Cardinality(ServingMorning(optimizedClasses, locations[k], d))
            /\ Cardinality(ServingEvening(optimizedClasses', locations[k], d))
                 <= Cardinality(ServingEvening(optimizedClasses, locations[k], d))]_vars

\* the schedule as assignClass pushed its classes
AsPlaced == [i \in DOMAIN placed |-> placed[i].class]

\* Phase 4 has ended and a shift is served by fewer instructors than the
\* classes of that shift were first given
C25_Witness ==
  /\ pc = "phase5"
  /\ cursor = <<1, 1>>
  /\ \E k \in DOMAIN locations : \E d \in Range(AllDays) :
       \/ Cardinality(ServingMorning(optimizedClasses, locations[k], d))
            < Cardinality(ServingMorning(AsPlaced, locations[k], d))
       \/ Cardinality(ServingEvening(optimizedClasses, locations[k], d))
            < Cardinality(ServingEvening(AsPlaced, locations[k], d))


(***************************************************************************)
(* Phase 1.                                                                *)
(***************************************************************************)
Phase1Ended == pc = "phase2" /\ cursor = <<1, 1, 1, 1>>

\* the formats getBestClassForSlot ranks for a cell
EligibleFormats(location, day, time) ==
  {csvData[i].cleanedClass :
     i \in {j \in DOMAIN csvData :
              /\ csvData[j].location = location
              /\ csvData[j].dayOfWeek = day
              /\ csvData[j].classTime = time
              /\ ~isHostedClass(csvData[j].cleanedClass)
              /\ isClassAllowedAtLocation(csvData[j].cleanedClass, location)
              /\ csvData[j].cleanedClass \notin getDayGuidelines(day).avoid
              /\ csvData[j].participants >= 4}}

\* an instructor of the roster Phase 1 would try passes canAssignTeacher
\* for the format in the cell
Assignable(classFormat, day, time) ==
  \E k \in DOMAIN allTeachers :
    /\ isPeakHour(time) => isSeniorTrainer(allTeachers[k])
    /\ canAssignTeacher(Machine, allTeachers[k], day, time, getClassDuration(classFormat),
                        classFormat)

\* C26: when Phase 1 has ended, a cell whose target count is 2, for which
\* at least two formats are eligible, each with an instructor who can still
\* be assigned, on a day below its cap, holds two classes of different
\* formats.
C26_TwoFormatsInCell ==
  Phase1Ended =>
    \A d \in DOMAIN days : \A l \in DOMAIN locations :
      \A s \in DOMAIN getAvailableTimeSlots(days[d]) :
        LET day == days[d]
            location == locations[l]
            time == getAvailableTimeSlots(day)[s]
            eligible == EligibleFormats(location, day, time)
            held == {optimizedClasses[i].classFormat :
                       i \in ClassesIn(optimizedClasses, location, day, time)}
        IN  (/\ classesToSchedule(location, time) = 2
             /\ Cardinality(eligible) >= 2
             /\ \A f \in eligible : Assignable(f, day, time)
             /\ day # "Sunday")
            => Cardinality(held) >= 2


\* C27: when Phase 1 has ended, a cell below its target count, on a day
\* below its cap, lacks a class of its best format only if no instructor of
\* the roster passes canAssignTeacher for that format there.
C27_FilledWhenAnyPasses ==
  Phase1Ended =>
    \A d \in DOMAIN days : \A l \in DOMAIN locations :
      \A s \in DOMAIN getAvailableTimeSlots(days[d]) :
        LET day == days[d]
            location == locations[l]
            time == getAvailableTimeSlots(day)[s]
            bestClass == getBestClassForSlot(csvData, location, day, time, getDayGuidelines(day))
            existingClasses == ClassesIn(optimizedClasses, location, day, time)
        IN  (/\ bestClass # NoFormat
             /\ \A i \in existingClasses : optimizedClasses[i].classFormat # bestClass
             /\ Cardinality(existingClasses) < classesToSchedule(location, time)
             /\ day # "Sunday")
            => \A k \in DOMAIN allTeachers :
                 ~canAssignTeacher(Machine, allTeachers[k], day, time,
                                   getClassDuration(bestClass), bestClass)


\* the records of a format in a cell, all of them
RecordsOf(classFormat, location, day, time) ==
  {i \in DOMAIN csvData :
     /\ csvData[i].cleanedClass = classFormat
     /\ csvData[i].location = location
     /\ csvData[i].dayOfWeek = day
     /\ csvData[i].classTime = time}

\* C28: a class Phase 1 placed has a format whose participants, over all
\* the records of the format in the class's cell, average at least 4.
C28_Phase1AverageAtLeast4 ==
  \A i \in DOMAIN placed :
    placed[i].phase = "phase1" =>
      LET cls == placed[i].class
          all == RecordsOf(cls.classFormat, cls.location, cls.day, cls.time)
      IN  /\ all # {}
          /\ SumParticipants(csvData, all) >= 4 * Cardinality(all)


(***************************************************************************)
(* Phase 3.                                                                *)
(***************************************************************************)
\* C29: a step of Phase 3 adds a class of a required format only while the
\* schedule holds fewer than 3 classes of that format, and adds no class of
\* another format.
C29_Phase3StopsAtThree ==
  [][pc = "phase3" =>
       \A i \in DOMAIN optimizedClasses' \ DOMAIN optimizedClasses :
         /\ optimizedClasses'[i].classFormat = requiredFormats[cursor[1]]
         /\ FormatCount(optimizedClasses, optimizedClasses'[i].classFormat) < MinFormatCount]_vars


(***************************************************************************)
(* The run as a whole.                                                     *)
(***************************************************************************)
\* the phase that follows a phase
PhaseAfter ==
  [p \in {"phase0", "phase1", "phase2", "phase3", "phase4", "phase5"} |->
     CASE p = "phase0" -> "phase1"
       [] p = "phase1" -> "phase2"
       [] p = "phase2" -> "phase3"
       [] p = "phase3" -> "phase4"
       [] p = "phase4" -> "phase5"
       [] OTHER -> "done"]

\* C30: a run goes through Phases 0 to 5 in that order, entering no phase
\* twice and none out of turn, and ends: it returns its schedule.
C30_RunsThroughThePhases ==
  /\ [][pc' # pc => pc \in DOMAIN PhaseAfter /\ pc' = PhaseAfter[pc]]_vars
  /\ <>Returned


(***************************************************************************)
(* The returned schedule: formats, times and the tracker.                  *)
(***************************************************************************)
\* C40: no class of the returned schedule has a format that getDayGuidelines
\* lists under avoid for the class's day.
C40_NoAvoidedFormat ==
  Returned =>
    \A i \in DOMAIN optimizedClasses :
      optimizedClasses[i].classFormat \notin getDayGuidelines(optimizedClasses[i].day).avoid

\* C34: the returned schedule never gives one instructor two classes with
\* the same day and the same time.
C34_NoSameTimeTwice ==
  Returned =>
    \A i, j \in DOMAIN optimizedClasses :
      (/\ i # j
       /\ FullName(optimizedClasses[i]) = FullName(optimizedClasses[j])
       /\ optimizedClasses[i].day = optimizedClasses[j].day)
      => optimizedClasses[i].time # optimizedClasses[j].time

\* the classes whose first and last name are the halves of the tracker's key
ClassesTaughtBy(oc, teacher) ==
  {i \in DOMAIN oc : /\ oc[i].teacherFirstName = FirstNameOf(teacher)
                     /\ oc[i].teacherLastName = LastNameOf(teacher)}

\* C36: through Phases 0 to 4 the tracker's weekly hours of every instructor
\* are the summed durations of the instructor's classes, and the tracker's
\* hours of every day those of the instructor's classes on that day.
C36_TrackerIsTheSum ==
  pc \in {"phase0", "phase1", "phase2", "phase3", "phase4", "phase5"} =>
    \A teacher \in DOMAIN teacherHoursTracker :
      /\ teacherHoursTracker[teacher] =
           SumDurations(optimizedClasses, ClassesTaughtBy(optimizedClasses, teacher))
      /\ \A d \in DOMAIN teacherDailyHours[teacher] :
           teacherDailyHours[teacher][d] =
             SumDurations(optimizedClasses,
                          {i \in ClassesTaughtBy(optimizedClasses, teacher) :
                             optimizedClasses[i].day = d})


(***************************************************************************)
(* The strategies' schedules: classes per day, locations, instructors.     *)
(***************************************************************************)
\* the classes of a schedule at a location on a day
ClassesAt(sched, location, day) ==
  {k \in DOMAIN sched : sched[k].location = location /\ sched[k].day = day}

\* C32: in every schedule a strategy returned, each location has on each day
\* at most the day's maxClasses classes (5 on Sunday, 10 on Thursday and
\* Saturday, 12 otherwise), the balanced strategy's 07:30 class counted.
C32_StrategyDayCap ==
  \A i \in StrategyIterations :
    \A l \in Range(locations) : \A d \in Range(AllDays) :
      Cardinality(ClassesAt(iterations[i].schedule, l, d)) <= DAY_GUIDELINES(d).maxClasses

\* the balanced strategy returned a schedule whose Kwality House weekday
\* opens with the 07:30 class and holds exactly the day's maxClasses
C32_Witness ==
  \E i \in StrategyIterations :
    /\ iterations[i].id = "balanced-schedule"
    /\ \E d \in Range(AllDays) :
         /\ isKwalityWeekday(KW, d)
         /\ \E k \in ClassesAt(iterations[i].schedule, KW, d) :
              iterations[i].schedule[k].time = HM(7, 30)
         /\ Cardinality(ClassesAt(iterations[i].schedule, KW, d)) = DAY_GUIDELINES(d).maxClasses

\* C33: in every schedule a strategy returned, no instructor has classes at
\* two locations on one day, the balanced strategy's 07:30 class included.
C33_StrategyOneLocationPerDay ==
  \A i \in StrategyIterations :
    \A j, k \in DOMAIN iterations[i].schedule :
      (/\ FullName(iterations[i].schedule[j]) = FullName(iterations[i].schedule[k])
       /\ iterations[i].schedule[j].day = iterations[i].schedule[k].day)
      => iterations[i].schedule[j].location = iterations[i].schedule[k].location

\* C35: no schedule generateIntelligentSchedule or a strategy returned holds
\* a class of an inactive instructor (a name containing 'Nishanth' or
\* 'Saniya').
C35_NoInactiveInstructor ==
  /\ Returned => \A name \in InstructorsOf(optimizedClasses) : ~isInactive(name)
  /\ \A i \in DOMAIN iterations :
       \A name \in InstructorsOf(iterations[i].schedule) : ~isInactive(name)


(***************************************************************************)
(* The App's teacherHours and its history.                                 *)
(***************************************************************************)
\* C37: after every operation of the App that changes the schedule,
\* teacherHours is calculateTeacherHours of the schedule.
C37_TeacherHoursFollowSchedule ==
  teacherHours = calculateTeacherHours(scheduledClasses)

\* C38: an Undo that changed the schedule leaves Redo enabled, with the
\* schedule of right before the Undo as the entry Redo restores, and neither
\* Undo nor Redo adds an entry to scheduleHistory or removes one.
C38_UndoThenRedo ==
  [][/\ (outcome'.kind = "undo" /\ userActions' # userActions
           /\ scheduledClasses' # scheduledClasses)
        => /\ historyIndex' < Len(scheduleHistory') - 1
           /\ scheduleHistory'[historyIndex' + 2] = scheduledClasses
     /\ (outcome'.kind \in {"undo", "redo"} /\ userActions' # userActions)
        => scheduleHistory' = scheduleHistory]_vars


(***************************************************************************)
(* The dialogs that call the AIService.                                    *)
(***************************************************************************)
\* the last call has ended and was answered from the records, without an
\* answer of the provider
LocalPath == ~isLoadingAI /\ external \notin {"answered", "badContent"}

\* C31: every recommendation the modal stores has a priority from 1 to 5,
\* and those of the local path have, by rank, the priorities 5, 4, 3, 2, 1.
C31_PriorityOneToFive ==
  \A i \in DOMAIN aiRecommendations :
    /\ aiRecommendations[i].priority \in 1..5
    /\ LocalPath => aiRecommendations[i].priority = 6 - i

\* C39: a connection test that has ended shows 'error' when the call to the
\* provider failed and 'success' only when the provider answered.
C39_StatusTellsTheOutcome ==
  (~isTestingConnection /\ connectionStatus # "idle") =>
    /\ external \in {"networkError", "httpError", "badBody"} => connectionStatus = "error"
    /\ connectionStatus = "success" => external \in {"answered", "badContent"}

=============================================================================
